---- MODULE Spec2Model ----
(***************************************************************************)
(* Two-tier keyboard / remote navigation of the dashboard: the zone focus  *)
(* controller (useZoneFocus) and the row cursor of the widgets it hosts.   *)
(* One window keydown event is dispatched to every registered listener;    *)
(* the listeners read the state of the last render, their state updates    *)
(* are batched, and the effects of the following commit run before the     *)
(* next event.  One action is one event together with that commit: a       *)
(* keydown or a click is a discrete event, the updates it makes are        *)
(* rendered and the effects of that commit run before the next event.      *)
(*                                                                         *)
(* Spec follows the navigation state on every page, SpecTasks the          *)
(* completion of tasks (queued set, grace timers, completeTask calls) on   *)
(* the pages with a task widget, and SpecToken the token record of the     *)
(* session through sign-in, reads and refreshes.  SpecPage follows the     *)
(* session to the browser (page gates, useSession, widget queries),        *)
(* SpecDrain the paginated fetches and SpecFan the calendar fan-out of     *)
(* lib/google.ts, and SpecStore the selection a widget keeps in            *)
(* localStorage.                                                           *)
(***************************************************************************)
EXTENDS Integers, Sequences, FiniteSets, TLC

\* ------------------------------------------------------------------ bounds
MaxZones == 4
MaxSub == 2
MaxContent == 2

\* ------------------------------------------------------------------- keys
NAV_KEYS ==
    {"ArrowDown", "ArrowUp", "ArrowLeft", "ArrowRight",
     "Enter", "Escape", " ", "MediaPlayPause"}

\* keys outside the recognized set (a letter key, Tab)
OtherKeys == {"a", "Tab"}

Keys == NAV_KEYS \cup OtherKeys

\* ------------------------------------------------------- revisions, pages
\* the three revisions of useZoneFocus kept in the repository
HookRevs == {1, 2, 3}

\* the two revisions of the task widget: grace timer, commit on exit
TaskRevs == {"timer", "queue"}

\* kinds of zone: widgets with a row cursor, and zones without one
Kinds == {"Task", "Photo", "Music", "Plain"}

Min(a, b) == IF a < b THEN a ELSE b
Max(a, b) == IF a > b THEN a ELSE b

VARIABLES
    hookRev,        \* revision of useZoneFocus in use
    taskRev,        \* revision of TaskWidget in use
    layout,         \* layout[z + 1] = kind of the widget rendered as zone z
    hasActivate,    \* the page passes onActivate / uses activateZone
    focusedIndex,   \* useZoneFocus state
    isActive,       \* useZoneFocus state
    widgets,        \* widgets[z] = state of the widget of zone z
    ev,             \* the event handled by the last step
    scen,           \* number of steps of the documented scenario replayed
    listener,       \* the render whose handleKeyDown is registered on window
    queued,         \* TaskWidget (commit on exit): state queued
    pendingIds,     \* TaskWidget (grace timer): state pendingIds
    pendingTimers,  \* TaskWidget (grace timer): keys of the pendingTimers map
    timeouts,       \* timeouts[id] = scheduled, uncleared timeouts of task id
    inflight,       \* task ids with a completeTask call not yet settled
    calls,          \* calls[id] = completeTask calls issued by the last step
    now,            \* Date.now() of the server, in milliseconds
    cookie,         \* the token record of the session cookie, or NoToken
    req,            \* req[r] = the session read r in progress
    issued,         \* number of access tokens the identity provider issued
    client,         \* the session object useSession holds in the browser
    view,           \* the page the browser shows: its route, prompt or content
    apiCall,        \* the last REST call a widget issued, or NoCall
    chain,          \* the pages a paginated endpoint serves, in order
    drain,          \* the call of a drain function in progress
    calApi,         \* what the calendar endpoints answer: list, events
    fan,            \* the call of fetchAllCalendarEvents in progress
    storage,        \* localStorage: the selection key and the name key
    picker,         \* the widget that persists its selection, and its Dropdown
    selectedListId, \* TaskWidget state: the id of the task list shown
    mutations,      \* the completeTask requests the last step sent
    mounted,        \* the task widget is mounted
    loader,         \* the module state of the YouTube API loader, and the page
    players         \* players[h] = the effect of player hook h

\* the completion state of the task widget
taskVars == <<queued, pendingIds, pendingTimers, timeouts, inflight, calls>>

\* the session of the server
sessionVars == <<now, cookie, req, issued>>

\* a paginated endpoint and the function that drains it
drainVars == <<chain, drain>>

\* the calendar endpoints and the fan-out over the calendars
fanVars == <<calApi, fan>>

\* the list selection and the lifetime of the task widget
listVars == <<selectedListId, mutations, mounted>>

\* the loader of the YouTube iframe API and the hooks that call it
loaderVars == <<loader, players>>

moreVars == <<listVars, loaderVars>>

\* the state of the functions of lib/google.ts and of the hooks
laterVars == <<drainVars, fanVars, moreVars>>

\* the persisted selection of a widget
storeVars == <<storage, picker>>

\* the session and the page as the browser has them
browserVars == <<client, view, apiCall>>

\* the state outside navigation, task completion and the server's session
otherVars == <<browserVars, laterVars, storeVars>>

\* the navigation state of the page
navVars == <<hookRev, taskRev, layout, hasActivate, focusedIndex, isActive,
             widgets, ev, scen, listener>>

vars == <<hookRev, taskRev, layout, hasActivate, focusedIndex, isActive,
          widgets, ev, scen, listener, queued, pendingIds, pendingTimers, timeouts,
          inflight, calls, now, cookie, req, issued, client, view, apiCall,
          chain, drain, calApi, fan, storage, picker, selectedListId,
          mutations, mounted, loader, players>>

zoneCount == Len(layout)
Zones == 0 .. (zoneCount - 1)
KindOf(z) == layout[z + 1]

\* ------------------------------------------------------------- controller
NextZoneNoWrap(i, zc) == i + 1

\* ArrowDown / ArrowRight updater
NextZone(i, zc) == IF i < zc - 1 THEN i + 1 ELSE 0

PrevZoneModulo(i, zc) == (i - 1 + zc) % zc

\* ArrowUp / ArrowLeft updater
PrevZone(i, zc) == IF i > 0 THEN i - 1 ELSE zc - 1

EnterActivatesUngated(key, fi) == key = "Enter"

\* Enter activates only a focused zone
EnterActivates(key, fi) == key = "Enter" /\ fi >= 0

\* zone navigation while no zone is active; the same in the three revisions
InactiveNav(key, fi, zc) ==
    IF key \in {"ArrowDown", "ArrowRight"}
      THEN [fi |-> NextZone(fi, zc), act |-> FALSE, handled |-> TRUE]
    ELSE IF key \in {"ArrowUp", "ArrowLeft"}
      THEN [fi |-> PrevZone(fi, zc), act |-> FALSE, handled |-> TRUE]
    ELSE IF EnterActivates(key, fi)
      THEN [fi |-> fi, act |-> TRUE, handled |-> TRUE]
    ELSE IF key = "Escape" /\ fi >= 0
      THEN [fi |-> -1, act |-> FALSE, handled |-> TRUE]
    ELSE [fi |-> fi, act |-> FALSE, handled |-> FALSE]

ActiveNavUnfocus(key, fi) ==
    IF key = "Escape"
      THEN [fi |-> -1, act |-> FALSE, handled |-> TRUE]
      ELSE [fi |-> fi, act |-> TRUE, handled |-> FALSE]

ActiveNavFallThrough(key, fi) ==
    IF key = "Escape"
      THEN [fi |-> fi, act |-> FALSE, handled |-> TRUE]
      ELSE [fi |-> InactiveNav(key, fi, zoneCount).fi, act |-> TRUE,
            handled |-> TRUE]

\* the controller's branch while a zone is active: only Escape is handled
ActiveNav(key, fi) ==
    IF key = "Escape"
      THEN [fi |-> fi, act |-> FALSE, handled |-> TRUE]
      ELSE [fi |-> fi, act |-> TRUE, handled |-> FALSE]

CtrlPreventsAll(rev, key, act, handled) == TRUE

\* does handleKeyDown of revision rev call e.preventDefault()
CtrlPrevents(rev, key, act, handled) ==
    IF rev = 1 THEN key \in NAV_KEYS ELSE handled

\* handleKeyDown of useZoneFocus: new (focusedIndex, isActive), preventDefault
CtrlKey(rev, key, fi, act, zc) ==
    LET r == IF rev = 1 /\ key \notin NAV_KEYS
               THEN [fi |-> fi, act |-> act, handled |-> FALSE]
             ELSE IF act THEN ActiveNav(key, fi)
             ELSE InactiveNav(key, fi, zc)
    IN  [fi |-> r.fi, act |-> r.act,
         prevented |-> CtrlPrevents(rev, key, act, r.handled)]

\* the values of focusedIndex and isActive that a render of the hook passes
\* to the handleKeyDown it defines; the first render has the initial state
Mounted == [fi |-> -1, act |-> FALSE]

RegisterOnce(snap, fi, act) == snap

\* the effect of useZoneFocus after a commit: its dependencies are isActive,
\* focusedIndex and zoneCount, so the listener of the render before is
\* removed and the one of this render added whenever one of them changed
Register(snap, fi, act) ==
    IF snap.fi # fi \/ snap.act # act THEN [fi |-> fi, act |-> act] ELSE snap

\* the registered handleKeyDown at work: its conditions read the isActive and
\* focusedIndex of the render snap that defined it, the updaters it passes to
\* setFocusedIndex get the current state, and what no branch sets is kept
handleKeyDown(rev, key, snap, fi, act, zc) ==
    LET c == CtrlKey(rev, key, snap.fi, snap.act, zc)
        moves == /\ ~snap.act
                 /\ key \in {"ArrowDown", "ArrowRight", "ArrowUp", "ArrowLeft"}
    IN  [fi |-> IF moves THEN InactiveNav(key, fi, zc).fi
                ELSE IF c.fi # snap.fi THEN c.fi
                ELSE fi,
         act |-> IF c.act # snap.act THEN c.act ELSE act,
         prevented |-> c.prevented]

\* ---------------------------------------------------------------- widgets
\* the component rendered as a zone of kind k
Comp(k, trev) == IF k = "Task" THEN trev ELSE k

\* state of a widget at mount
InitWidget(k) ==
    [cursorIndex |-> -1, menuOpen |-> FALSE, ddOpen |-> FALSE,
     wasActive |-> FALSE, sub |-> 0, content |-> 0,
     status |-> IF k = "Task" THEN "loading" ELSE "ok"]

\* what the content query shows after the selection changed: the cached
\* result of the new key, or nothing while it loads
Arrivals ==
    [status : {"ok", "error"}, content : 0 .. MaxContent]
      \cup {[status |-> "loading", content |-> 0]}

headerCount(c) == IF c = "Music" THEN 0 ELSE 1

listCount(c, w) == IF w.menuOpen THEN w.sub ELSE 0

totalCount(c, w) == headerCount(c) + listCount(c, w) + w.content

\* the Dropdown is rendered (ddRef.current is set) unless the task widget
\* shows its loading or error text
DdMounted(w) == w.status = "ok"

\* Dropdown.toggleMenu, reached through ddRef.current?.toggleMenu()
DdToggle(w) ==
    IF DdMounted(w)
      THEN [w EXCEPT !.ddOpen = ~w.ddOpen, !.menuOpen = ~w.ddOpen]
      ELSE w

\* Dropdown.closeMenu, reached through ddRef.current?.closeMenu()
DdClose(w) ==
    IF DdMounted(w)
      THEN [w EXCEPT !.ddOpen = FALSE, !.menuOpen = FALSE]
      ELSE w

\* the content query after setSelectedListId: a Dropdown that is no longer
\* rendered loses its state
Reselect(w, arr) ==
    [w EXCEPT !.status = arr.status, !.content = arr.content,
              !.ddOpen = IF arr.status = "ok" THEN @ ELSE FALSE]

\* Dropdown.select
DdSelect(w, arr) ==
    Reselect([w EXCEPT !.ddOpen = FALSE, !.menuOpen = FALSE], arr)

\* Dropdown.selectAtIndex
DdSelectAtIndex(w, index, arr) ==
    IF DdMounted(w) /\ index >= 0 /\ index < w.sub
      THEN DdSelect(w, arr)
      ELSE w

\* handleListChange / handleFolderChange
handleListChange(w, arr) ==
    Reselect([w EXCEPT !.menuOpen = FALSE], arr)

CursorDownWrap(i, total) == IF i + 1 > total - 1 THEN 0 ELSE i + 1

\* ArrowDown updater of the widgets
CursorDown(i, total) == Min(i + 1, total - 1)

\* ArrowUp updater of the widgets
CursorUp(i) == Max(i - 1, 0)

\* handleKeyDown of TaskWidget (grace-timer revision, with Dropdown)
TaskTimerKey(w, key, arr) ==
    LET i == w.cursorIndex
        total == totalCount("timer", w)
        lc == listCount("timer", w)
    IN  IF key \notin NAV_KEYS THEN w
        ELSE IF key = "ArrowDown"
          THEN [w EXCEPT !.cursorIndex = CursorDown(i, total)]
        ELSE IF key = "ArrowUp"
          THEN [w EXCEPT !.cursorIndex = CursorUp(i)]
        ELSE IF key = "Escape" /\ w.menuOpen
          THEN [DdClose(w) EXCEPT !.cursorIndex = 0]
        ELSE IF key \in {"Enter", "ArrowRight"}
          THEN IF i = 0 THEN DdToggle(w)
               ELSE IF w.menuOpen /\ i >= 1 /\ i < 1 + lc
                 THEN [DdSelectAtIndex(w, i - 1, arr) EXCEPT !.cursorIndex = 0]
               ELSE w
        ELSE w

\* handleKeyDown of TaskWidget (commit-on-exit revision)
TaskQueueKey(w, key, arr) ==
    LET i == w.cursorIndex
        total == totalCount("queue", w)
        lc == listCount("queue", w)
    IN  IF key = "ArrowDown"
          THEN [w EXCEPT !.cursorIndex = CursorDown(i, total)]
        ELSE IF key = "ArrowUp"
          THEN [w EXCEPT !.cursorIndex = CursorUp(i)]
        ELSE IF key = "Escape" /\ w.menuOpen
          THEN [w EXCEPT !.menuOpen = FALSE, !.cursorIndex = 0]
        ELSE IF key = "Enter"
          THEN IF i = 0 THEN [w EXCEPT !.menuOpen = ~w.menuOpen]
               ELSE IF w.menuOpen /\ i >= 1 /\ i < 1 + lc
                 THEN [handleListChange(w, arr) EXCEPT !.cursorIndex = 0]
               ELSE w
        ELSE w

\* handleKeyDown of PhotoWidget
PhotoKey(w, key) ==
    LET i == w.cursorIndex
        total == totalCount("Photo", w)
        lc == listCount("Photo", w)
    IN  IF key = "ArrowDown"
          THEN [w EXCEPT !.cursorIndex = CursorDown(i, total)]
        ELSE IF key = "ArrowUp"
          THEN [w EXCEPT !.cursorIndex = CursorUp(i)]
        ELSE IF key = "Escape" /\ w.menuOpen
          THEN [w EXCEPT !.menuOpen = FALSE, !.cursorIndex = 0]
        ELSE IF key = "Enter"
          THEN IF i = 0 THEN [w EXCEPT !.menuOpen = ~w.menuOpen]
               ELSE IF w.menuOpen /\ i >= 1 /\ i < 1 + lc
                 THEN [w EXCEPT !.menuOpen = FALSE, !.cursorIndex = 0]
               ELSE w
        ELSE w

\* handleKeyDown of MusicWidget
MusicKey(w, key) ==
    LET i == w.cursorIndex
        total == totalCount("Music", w)
    IN  IF key = "ArrowDown"
          THEN [w EXCEPT !.cursorIndex = CursorDown(i, total)]
        ELSE IF key = "ArrowUp"
          THEN [w EXCEPT !.cursorIndex = CursorUp(i)]
        ELSE w

\* the key handler the component c registers while its zone is active
WidgetKey(c, w, key, arr) ==
    IF c = "timer" THEN TaskTimerKey(w, key, arr)
    ELSE IF c = "queue" THEN TaskQueueKey(w, key, arr)
    ELSE IF c = "Photo" THEN PhotoKey(w, key)
    ELSE IF c = "Music" THEN MusicKey(w, key)
    ELSE w

\* the submenu row under the cursor when the key handler of a widget with a
\* header row takes its selection branch, or -1
SelectRow(c, w, key) ==
    LET i == w.cursorIndex
        lc == listCount(c, w)
        selects == IF c = "timer" THEN key \in {"Enter", "ArrowRight"}
                   ELSE key = "Enter"
    IN  IF /\ c \in {"timer", "queue", "Photo"}
           /\ selects
           /\ i # 0
           /\ w.menuOpen /\ i >= 1 /\ i < 1 + lc
          THEN i - 1
          ELSE -1

\* the item the key handler makes the selection: select(id, name) of the
\* Dropdown reached through ddRef.current?.selectAtIndex, or
\* handleListChange / handleFolderChange; -1 if it selects nothing
KeySelection(c, w, key) ==
    LET r == SelectRow(c, w, key)
    IN  IF r < 0 THEN -1
        ELSE IF c = "timer"
          THEN IF DdMounted(w) /\ r < w.sub THEN r ELSE -1
        ELSE r

\* the item the same call writes with localStorage.setItem; -1 if none
KeyStored(c, w, key) == KeySelection(c, w, key)

\* components that register a keydown listener while active
HasKeyHandler(c) == c \in {"timer", "queue", "Photo", "Music"}

ActivationEffectEveryRun(c, w, active) ==
    IF c = "Plain" THEN w
    ELSE IF active
      THEN [w EXCEPT !.cursorIndex = IF totalCount(c, w) > 0 THEN 0 ELSE -1,
                     !.wasActive = TRUE]
    ELSE IF w.wasActive
      THEN LET closed == IF c = "timer" THEN DdClose(w)
                         ELSE [w EXCEPT !.menuOpen = FALSE]
           IN  [closed EXCEPT !.cursorIndex = -1, !.wasActive = FALSE]
    ELSE w

\* the activation / deactivation effect of a widget, run after the commit
\* in which its isActive prop is active
ActivationEffect(c, w, active) ==
    IF c = "Plain" THEN w
    ELSE IF active /\ ~w.wasActive
      THEN [w EXCEPT !.cursorIndex = IF totalCount(c, w) > 0 THEN 0 ELSE -1,
                     !.wasActive = TRUE]
    ELSE IF ~active /\ w.wasActive
      THEN LET closed == IF c = "timer" THEN DdClose(w)
                         ELSE [w EXCEPT !.menuOpen = FALSE]
           IN  [closed EXCEPT !.cursorIndex = -1, !.wasActive = FALSE]
    ELSE w

\* the commit after an event: every widget runs its effects with the props
\* derived from the controller state (isActive = focusedIndex === z && isActive)
Commit(ws, lay, trev, fi, act) ==
    [z \in DOMAIN ws |->
        ActivationEffect(Comp(lay[z + 1], trev), ws[z], fi = z /\ act)]

\* ------------------------------------------------------------------ pages
PlainGrid(n) == [i \in 1 .. n |-> "Plain"]

\* the pages of the repository: the zones they render in index order, and
\* whether they hand activateZone to the zones as onActivate.  The home page
\* renders task list, photo frame and calendar; the two-zone pages render a
\* prefix or a sub-layout of it.  A grid of plain zones stands for a page of
\* n zones without a row cursor (the calendar-only home page has n = 1).
Pages ==
    {[layout |-> <<"Task", "Photo", "Plain">>, hasActivate |-> TRUE],
     [layout |-> <<"Music">>, hasActivate |-> TRUE],
     [layout |-> <<"Task">>, hasActivate |-> FALSE]}
      \cup {[layout |-> PlainGrid(n), hasActivate |-> b] :
                n \in 1 .. MaxZones, b \in BOOLEAN}

\* the documented scenario: keys pressed from the initial state, zoneCount 3
ScenarioKeys == <<"ArrowDown", "Enter", "ArrowDown", "Escape", "Escape">>

\* ---------------------------------------------------------------- session
MaxTime == 5
MaxTokens == 2

\* the buffer of the jwt callback, in milliseconds
RefreshBuffer == 60000

\* lifetime given to a token whose expiry the provider does not state, in
\* seconds
DefaultLifetime == 3600

\* the clock advances in steps of half the buffer
Tick == RefreshBuffer \div 2

\* seconds to milliseconds
ToMs(sec) == sec * 1000

\* two session reads that may overlap
Readers == {"r1", "r2"}

\* lifetimes the provider states, in seconds: half the buffer, twice the
\* buffer; 0 stands for an absent field
Lifetimes == {0, (Tick \div 1000), 2 * (RefreshBuffer \div 1000)}

\* the n-th answer of the provider carries access token n and, where it
\* carries one, refresh token -n: no refresh token equals an access token
RefreshTokenOf(n) == 0 - n

NoToken == [accessToken |-> 0, refreshToken |-> 0, accessTokenExpires |-> 0,
            error |-> "signedOut"]

IdleRead == [pc |-> "idle", token |-> NoToken, refreshes |-> 0,
             out |-> NoToken]

InitSession ==
    /\ now = 0
    /\ cookie = NoToken
    /\ req = [r \in Readers |-> IdleRead]
    /\ issued = 0

\* auth() without a session cookie
NoSession == [user |-> "none", accessToken |-> 0, error |-> "none"]

sessionSpread(t) ==
    [user |-> "user", accessToken |-> t.accessToken, error |-> t.error,
     refreshToken |-> t.refreshToken]

\* the session callback: the default session (user fields) with accessToken
\* and error copied from the token record
session(t) ==
    [user |-> "user", accessToken |-> t.accessToken, error |-> t.error]

\* what auth() and GET /api/auth/session return for the record t
SessionFor(t) == IF t = NoToken THEN NoSession ELSE session(t)

NoView == [route |-> "none", prompt |-> FALSE]

NoCall == [accessToken |-> 0, error |-> "none"]

InitBrowser ==
    /\ client = NoSession
    /\ view = NoView
    /\ apiCall = NoCall

TokenValidInclusive(t, time) == time <= t.accessTokenExpires - RefreshBuffer

\* the gate of the jwt callback: the token is still valid, with the buffer
TokenValid(t, time) == time < t.accessTokenExpires - RefreshBuffer

\* the jwt callback at sign-in (account present): expires_at is in seconds
SignInToken(n, expires_at, time) ==
    [accessToken |-> n, refreshToken |-> RefreshTokenOf(n),
     accessTokenExpires |-> IF expires_at # 0 THEN ToMs(expires_at)
                            ELSE time + ToMs(DefaultLifetime),
     error |-> "none"]

\* refreshAccessToken when the provider answers with a token
Refreshed(t, n, expires_in, rotates, time) ==
    [accessToken |-> n,
     refreshToken |-> IF rotates THEN RefreshTokenOf(n) ELSE t.refreshToken,
     accessTokenExpires |->
        time + ToMs(IF expires_in # 0 THEN expires_in ELSE DefaultLifetime),
     error |-> "none"]

\* refreshAccessToken when the response is not ok or carries an error
RefreshError(t) == [t EXCEPT !.error = "RefreshTokenError"]

\* ------------------------------------------------------------ pagination
MaxPages == 3
MaxDrains == 2

\* the types of the items of a page, in order: pages of 0, 1 and 2 items
PageShapes ==
    {<<>>} \cup [1 .. 1 -> {"PHOTO", "VIDEO"}]
           \cup [1 .. 2 -> {"PHOTO", "VIDEO"}]

\* the chains of 1 .. MaxPages pages
Chains == UNION {[1 .. n -> PageShapes] : n \in 1 .. MaxPages}

\* the drain functions
Drains == {"fetchDriveFolders", "fetchYouTubePlaylists",
           "fetchPickedMediaItems"}

\* the items of page i of chain c: item j of page i is named by <<i, j>>
ItemsOf(c, i) ==
    [j \in 1 .. Len(c[i]) |-> [page |-> i, pos |-> j, type |-> c[i][j]]]

\* the endpoint: a request without pageToken (0) is answered with page 1, a
\* request with token i by page i + 1; page i carries nextPageToken i unless
\* it is the last one (0: the field is absent)
Respond(c, pageToken) ==
    LET i == pageToken + 1
    IN  [items |-> ItemsOf(c, i),
         nextPageToken |-> IF i < Len(c) THEN i ELSE 0]

\* what a drain function keeps of the items of one page
Keep(fn, items) ==
    IF fn = "fetchPickedMediaItems"
      THEN SelectSeq(items, LAMBDA it : it.type = "PHOTO")
      ELSE items

IdleDrain ==
    [fn |-> "none", pc |-> "idle", pageToken |-> 0, allItems |-> <<>>,
     requests |-> <<>>, n |-> 0]

\* the first statements of a drain function: an empty list, no pageToken
StartDrain(fn, n) ==
    [fn |-> fn, pc |-> "loop", pageToken |-> 0, allItems |-> <<>>,
     requests |-> <<>>, n |-> n]

DrainBodyReplace(d, data) ==
    [d EXCEPT !.allItems = Keep(d.fn, data.items),
              !.pageToken = data.nextPageToken,
              !.requests = Append(d.requests, d.pageToken),
              !.pc = IF data.nextPageToken # 0 THEN "loop" ELSE "done"]

\* one pass of the do-while loop: the request carries pageToken if it is set,
\* the items of the answer are pushed, pageToken becomes the answer's
\* nextPageToken and the loop goes on while that is set
DrainBody(d, data) ==
    [d EXCEPT !.allItems = d.allItems \o Keep(d.fn, data.items),
              !.pageToken = data.nextPageToken,
              !.requests = Append(d.requests, d.pageToken),
              !.pc = IF data.nextPageToken # 0 THEN "loop" ELSE "done"]

\* ------------------------------------------------------ calendar fan-out
MaxCals == 3

\* the start of an event: a timed event has dateTime, an all-day event has
\* date, and either may be missing (0); the numbers stand for the strings in
\* the order localeCompare gives them, '' first
AllDay == [dateTime |-> 0, date |-> 1]
Timed == [dateTime |-> 2, date |-> 0]
NoStart == [dateTime |-> 0, date |-> 0]

\* the event lists the events endpoint answers with
EventLists ==
    {<<>>, <<AllDay>>, <<Timed>>, <<NoStart>>, <<AllDay, Timed>>,
     <<Timed, AllDay>>, <<Timed, Timed>>}

\* what becomes of one calendar of the list: it is not selected, its events
\* request fails, or it answers with a list of events
Outcomes ==
    {[selected |-> FALSE, ok |-> TRUE, items |-> <<>>],
     [selected |-> TRUE, ok |-> FALSE, items |-> <<>>]}
      \cup {[selected |-> TRUE, ok |-> TRUE, items |-> l] : l \in EventLists}

CalApis ==
    UNION {[listOk : BOOLEAN, cals : [1 .. n -> Outcomes]] : n \in 0 .. MaxCals}

\* aTime / bTime of the comparator: start.dateTime ?? start.date ?? ''
StartKey(e) ==
    IF e.start.dateTime # 0 THEN e.start.dateTime
    ELSE IF e.start.date # 0 THEN e.start.date
    ELSE 0

\* the then-callback of one calendar: its events with the calendar's id
Enrich(c, items) ==
    [j \in 1 .. Len(items) |->
       [start |-> items[j], calendarId |-> c, id |-> j]]

\* Array.prototype.sort with the comparator of the start keys: e goes after
\* every element that does not compare greater (the sort is stable)
RECURSIVE InsertSorted(_, _)
InsertSorted(sorted, e) ==
    IF sorted = <<>> THEN <<e>>
    ELSE IF StartKey(e) < StartKey(sorted[Len(sorted)])
      THEN Append(InsertSorted(SubSeq(sorted, 1, Len(sorted) - 1), e),
                  sorted[Len(sorted)])
      ELSE Append(sorted, e)

RECURSIVE SortEvents(_)
SortEvents(events) ==
    IF events = <<>> THEN <<>>
    ELSE InsertSorted(SortEvents(SubSeq(events, 1, Len(events) - 1)),
                      events[Len(events)])

\* results.flatMap(r => r.status === 'fulfilled' ? r.value : []) over the
\* results taken in the order ord of the calendars
RECURSIVE FlatMap(_, _)
FlatMap(results, ord) ==
    IF ord = <<>> THEN <<>>
    ELSE (IF results[Head(ord)].status = "fulfilled"
            THEN results[Head(ord)].value ELSE <<>>)
           \o FlatMap(results, Tail(ord))

\* the calendars of the list with selected === true, in list order
RECURSIVE SelectedOf(_, _)
SelectedOf(cals, i) ==
    IF i > Len(cals) THEN <<>>
    ELSE (IF cals[i].selected THEN <<i>> ELSE <<>>) \o SelectedOf(cals, i + 1)

Range(q) == {q[i] : i \in 1 .. Len(q)}

MergeAll(f) ==
    IF \E c \in Range(f.calendars) : f.results[c].status = "rejected"
      THEN [f EXCEPT !.pc = "rejected"]
      ELSE [f EXCEPT !.pc = "resolved",
                     !.out = SortEvents(FlatMap(f.results, f.calendars))]

MergeByCompletion(f) ==
    [f EXCEPT !.pc = "resolved",
              !.out = SortEvents(FlatMap(f.results, f.order))]

\* the statements after Promise.allSettled: the results are in the order of
\* the calendars whatever the order of completion
Merge(f) ==
    [f EXCEPT !.pc = "resolved",
              !.out = SortEvents(FlatMap(f.results, f.calendars))]

\* ------------------------------------------------- task lists of the widget
\* useState('@default') / getItem(...) || '@default'
DefaultList == "@default"

\* the task lists of the account
Lists == {DefaultList, "L1"}

\* the list a task is in: odd ids in the default list, even ids in L1
ListOf(id) == IF id % 2 = 1 THEN DefaultList ELSE "L1"

\* ------------------------------------------------- YouTube iframe API loader
MaxMounts == 2

\* the player hooks of the page, by containerId
Hooks == {"yt-a", "yt-b"}

\* the effect of a hook: whether it is mounted, how often it has run, and
\* whether playerRef holds a player
NoPlayer == [mounted |-> FALSE, runs |-> 0, player |-> FALSE]

\* the callback the effect run number n of hook h passes to ensureAPI
Callback(h, n) == [hook |-> h, run |-> n]

\* apiLoading, apiReady and onReadyCallbacks of the module; tags counts the
\* script elements appended to document.head, handlers the assignments to
\* window.onYouTubeIframeAPIReady, YT tells that window.YT.Player exists;
\* asked lists the callbacks passed to ensureAPI and ran those called, in
\* order, and flushed counts the callbacks the ready handler called
IdleLoader ==
    [apiLoading |-> FALSE, apiReady |-> FALSE, onReadyCallbacks |-> <<>>,
     tags |-> 0, handlers |-> 0, YT |-> FALSE, asked |-> <<>>, ran |-> <<>>,
     flushed |-> 0]

ensureAPIQueueOnly(l, cb) ==
    LET q == [l EXCEPT !.asked = Append(@, cb),
                       !.onReadyCallbacks = Append(@, cb)]
    IN  IF q.apiLoading THEN q
        ELSE [q EXCEPT !.apiLoading = TRUE,
                       !.handlers = @ + 1,
                       !.tags = IF @ = 0 THEN 1 ELSE @]

\* ensureAPI(cb): with the API ready cb is called at once; otherwise it is
\* pushed, and the first such call sets apiLoading, assigns
\* window.onYouTubeIframeAPIReady and appends the script element unless one
\* with the id yt-iframe-api exists
ensureAPI(l, cb) ==
    LET a == [l EXCEPT !.asked = Append(@, cb)]
    IN  IF a.apiReady /\ a.YT
          THEN [a EXCEPT !.ran = Append(@, cb)]
          ELSE LET q == [a EXCEPT !.onReadyCallbacks = Append(@, cb)]
               IN  IF q.apiLoading THEN q
                   ELSE [q EXCEPT !.apiLoading = TRUE,
                                  !.handlers = @ + 1,
                                  !.tags = IF @ = 0 THEN 1 ELSE @]

\* the function assigned to window.onYouTubeIframeAPIReady: apiReady is
\* set, every pushed callback is called in order and the list is emptied
onYouTubeIframeAPIReady(l) ==
    [l EXCEPT !.apiReady = TRUE,
              !.ran = @ \o l.onReadyCallbacks,
              !.flushed = @ + Len(l.onReadyCallbacks),
              !.onReadyCallbacks = <<>>]

\* the callback of ensureAPI: it creates a player unless the effect run it
\* belongs to was cleaned up (destroyed) or playerRef holds one already
RunCallback(pl, cb) ==
    IF pl.mounted /\ pl.runs = cb.run THEN [pl EXCEPT !.player = TRUE]
                                      ELSE pl

IdleFan ==
    [pc |-> "idle", calendars |-> <<>>, results |-> <<>>, order |-> <<>>,
     out |-> <<>>]

InitFanIdle ==
    /\ calApi = [listOk |-> TRUE, cals |-> <<>>]
    /\ fan = IdleFan

\* the task widget at mount shows the default list and has sent nothing
InitLists ==
    /\ selectedListId = DefaultList
    /\ mutations = {}
    /\ mounted = TRUE

\* the module state of the loader when the module is evaluated, a page
\* without the script, and no player hook mounted
InitLoader ==
    /\ loader = IdleLoader
    /\ players = [h \in Hooks |-> NoPlayer]

InitMore ==
    /\ InitLists
    /\ InitLoader

InitLater ==
    /\ chain = <<>>
    /\ drain = IdleDrain
    /\ InitFanIdle
    /\ InitMore

\* ---------------------------------------------------- persisted selection
\* the items of the submenu: a task list or a folder, with its label
Items == {[id |-> "L1", label |-> "Work"], [id |-> "7", label |-> "Home"]}

NoItem == [id |-> "", label |-> ""]

\* strings that JSON.parse reads as a number
NumericStrings == {"7"}

\* a value of localStorage: getItem gives null for a missing key and else
\* the stored string s; a string written by JSON.stringify is the text of an
\* object with id and name
Null == [kind |-> "null", s |-> "", id |-> "", name |-> ""]

Str(s) == [kind |-> "str", s |-> s, id |-> "", name |-> ""]

JSONstringify(id, name) ==
    [kind |-> "json", s |-> "{id:" \o id \o ",name:" \o name \o "}",
     id |-> id, name |-> name]

\* JSON.parse: the object of an object text, a number, or an exception
JSONparse(t) ==
    IF t.kind = "json"
      THEN [throws |-> FALSE, object |-> TRUE, id |-> t.id, name |-> t.name]
    ELSE IF t.s \in NumericStrings
      THEN [throws |-> FALSE, object |-> FALSE, id |-> "", name |-> ""]
    ELSE [throws |-> TRUE, object |-> FALSE, id |-> "", name |-> ""]

\* a value of getItem in a condition: neither null nor ''
Truthy(t) == t.kind # "null" /\ t.s # ""

\* localStorage.getItem(key) || dflt
OrElse(t, dflt) == IF Truthy(t) THEN t.s ELSE dflt

\* the pageId props of the pages: every page has keys of its own
PageIds == {"home", "tasks"}

EmptyStorage == [main |-> Null, name |-> Null]

\* the state of useState before any effect has run
DefaultId(c) == IF c = "Photo" THEN "" ELSE "@default"

DefaultName(c) == IF c = "queue" THEN "Tasks" ELSE ""

\* lasts[p] is the item last committed on page p, restored tells that the
\* widget was mounted after such a commit
Unmounted ==
    [mounted |-> FALSE, page |-> "none", id |-> "", name |-> "",
     dd |-> FALSE, ddId |-> "", ddName |-> "",
     lasts |-> [p \in PageIds |-> NoItem], restored |-> FALSE]

\* the mount effect of Dropdown
DdRead(w, st) ==
    LET parsed == JSONparse(st.main)
    IN  IF Truthy(st.main) /\ ~parsed.throws /\ parsed.object
          THEN [w EXCEPT !.dd = TRUE,
                         !.ddId = IF parsed.id # "" THEN parsed.id ELSE "",
                         !.ddName = IF parsed.name # "" THEN parsed.name
                                    ELSE ""]
          ELSE [w EXCEPT !.dd = TRUE, !.ddId = "", !.ddName = ""]

MigrateKeepName(w, st) ==
    LET parsed == JSONparse(st.main)
    IN  IF ~Truthy(st.main) THEN [w |-> w, st |-> st]
        ELSE IF ~parsed.throws /\ parsed.object /\ parsed.id # ""
          THEN [w |-> [w EXCEPT !.id = parsed.id], st |-> st]
        ELSE [w |-> [w EXCEPT !.id = st.main.s],
              st |-> [st EXCEPT !.main = JSONstringify(st.main.s, "Tasks")]]

\* the mount effect of TaskWidget: storage in the old format (the list id as
\* a plain string, the name under a key of its own) is rewritten as JSON
Migrate(w, st) ==
    LET parsed == JSONparse(st.main)
    IN  IF ~Truthy(st.main) THEN [w |-> w, st |-> st]
        ELSE IF ~parsed.throws /\ parsed.object /\ parsed.id # ""
          THEN [w |-> [w EXCEPT !.id = parsed.id], st |-> st]
        ELSE [w |-> [w EXCEPT !.id = st.main.s],
              st |-> [main |-> JSONstringify(st.main.s,
                                             OrElse(st.name, "Tasks")),
                      name |-> Null]]

\* the widget mounts: the useState initialisers, then the mount effects, the
\* Dropdown's (if it is rendered at once) before the widget's
MountOf(c, w, st, pageId, withDd) ==
    IF c = "timer"
      THEN LET w1 == [w EXCEPT !.mounted = TRUE, !.page = pageId,
                               !.id = DefaultId(c),
                               !.restored = w.lasts[pageId] # NoItem]
               w2 == IF withDd THEN DdRead(w1, st) ELSE w1
           IN  Migrate(w2, st)
      ELSE [w |-> [w EXCEPT !.mounted = TRUE, !.page = pageId,
                            !.id = OrElse(st.main, DefaultId(c)),
                            !.name = OrElse(st.name, DefaultName(c)),
                            !.restored = w.lasts[pageId] # NoItem],
            st |-> st]

selectNoStore(c, w, st, item) ==
    [w |-> [w EXCEPT !.id = item.id, !.ddId = item.id,
                     !.ddName = item.label, !.lasts[w.page] = item],
     st |-> st]

\* an item of the submenu is committed: select of Dropdown with the onSelect
\* of TaskWidget, handleListChange, handleFolderChange
select(c, w, st, item) ==
    IF c = "timer"
      THEN [w |-> [w EXCEPT !.id = item.id, !.ddId = item.id,
                            !.ddName = item.label,
                            !.lasts[w.page] = item],
            st |-> [st EXCEPT !.main = JSONstringify(item.id, item.label)]]
      ELSE [w |-> [w EXCEPT !.id = item.id, !.name = item.label,
                            !.lasts[w.page] = item],
            st |-> [main |-> Str(item.id), name |-> Str(item.label)]]

\* what localStorage may hold when the page is opened: nothing, a selection
\* in the widget's own format, and for the TaskWidget with the Dropdown a
\* selection in the format of the TaskWidget before it, with or without name
Stores(c) ==
    {EmptyStorage}
      \cup (IF c = "timer"
              THEN {[main |-> JSONstringify(i.id, i.label), name |-> Null] :
                      i \in Items}
                     \cup {[main |-> Str(i.id), name |-> Str(i.label)] :
                             i \in Items}
                     \cup {[main |-> Str(i.id), name |-> Null] : i \in Items}
              ELSE {[main |-> Str(i.id), name |-> Str(i.label)] : i \in Items})

InitStoreIdle ==
    /\ storage = [p \in PageIds |-> EmptyStorage]
    /\ picker = Unmounted

\* ------------------------------------------------------- task completion
\* ids of the tasks: row j of the task list shows task j + 1
TaskIds == 1 .. MaxContent

NoCalls == [id \in TaskIds |-> 0]

\* the completion state of a task widget at mount
InitTaskState ==
    /\ queued = {}
    /\ pendingIds = {}
    /\ pendingTimers = {}
    /\ timeouts = [id \in TaskIds |-> 0]
    /\ inflight = {}
    /\ calls = NoCalls

\* ev.from is the zone that was active when the event arrived, or -1;
\* ev.selected is the index of the submenu item the step passed to
\* setSelectedListId / setFolderId, ev.stored the index of the item it passed
\* to localStorage.setItem, or -1
NoEvent ==
    [type |-> "init", key |-> "", prevented |-> FALSE, delivered |-> -1,
     from |-> -1, selected |-> -1, stored |-> -1]

Init ==
    /\ hookRev \in HookRevs
    /\ taskRev \in TaskRevs
    /\ \E p \in Pages :
         /\ layout = p.layout
         /\ hasActivate = p.hasActivate
    /\ hasActivate => hookRev \in {1, 2}
    /\ focusedIndex = -1
    /\ isActive = FALSE
    /\ widgets = [z \in 0 .. (Len(layout) - 1) |-> InitWidget(layout[z + 1])]
    /\ ev = NoEvent
    /\ scen = 0
    /\ listener = Mounted
    /\ InitTaskState
    /\ InitSession
    /\ InitBrowser
    /\ InitLater
    /\ InitStoreIdle

\* the zone whose isActive prop was true at the last render
ActiveZone == IF isActive THEN focusedIndex ELSE -1

CompOf(z) == Comp(KindOf(z), taskRev)

\* the state reached by an event that leaves the controller at (fi, act) and
\* the widgets, before their effects, at ws
Render(fi, act, ws) ==
    /\ focusedIndex' = fi
    /\ isActive' = act
    /\ widgets' = Commit(ws, layout, taskRev, fi, act)
    /\ listener' = Register(listener, fi, act)
    /\ UNCHANGED <<hookRev, taskRev, layout, hasActivate>>

activateZoneKeepFocus(index) ==
    [fi |-> IF focusedIndex >= 0 THEN focusedIndex ELSE index, act |-> TRUE]

\* activateZone(index) of useZoneFocus
activateZone(index) == [fi |-> index, act |-> TRUE]

NoArrival == [status |-> "ok", content |-> 0]

\* the key press selects a submenu row of the active task widget, which
\* changes the key of the content query
KeySelects(key) ==
    /\ isActive
    /\ focusedIndex >= 0
    /\ KindOf(focusedIndex) = "Task"
    /\ key \in {"Enter", "ArrowRight"}
    /\ widgets[focusedIndex].menuOpen
    /\ widgets[focusedIndex].cursorIndex >= 1

\* a keydown event on window: the controller's listener and the listener of
\* the active zone both receive it
KeyDown(key) ==
    \E arr \in IF KeySelects(key) THEN Arrivals ELSE {NoArrival} :
      LET c == handleKeyDown(hookRev, key, listener, focusedIndex, isActive,
                             zoneCount)
          az == ActiveZone
          zoneListens == az >= 0 /\ HasKeyHandler(CompOf(az))
          ws == IF zoneListens
                  THEN [widgets EXCEPT
                          ![az] = WidgetKey(CompOf(az), widgets[az], key, arr)]
                  ELSE widgets
      IN  /\ Render(c.fi, c.act, ws)
          /\ ev' = [type |-> "key", key |-> key, prevented |-> c.prevented,
                    delivered |-> IF zoneListens THEN az ELSE -1,
                    from |-> az,
                    selected |-> IF zoneListens
                                   THEN KeySelection(CompOf(az), widgets[az],
                                                     key)
                                   ELSE -1,
                    stored |-> IF zoneListens
                                 THEN KeyStored(CompOf(az), widgets[az], key)
                                 ELSE -1]
          /\ scen' = IF scen \in 0 .. 4 /\ key = ScenarioKeys[scen + 1]
                       THEN scen + 1 ELSE -1

\* an event that is not a keydown: a click, a call, a query result
OtherEvent ==
    [type |-> "other", key |-> "", prevented |-> FALSE, delivered |-> -1,
     from |-> -1, selected |-> -1, stored |-> -1]

\* a click that reaches onActivate of a zone
ClickEvent ==
    [type |-> "click", key |-> "", prevented |-> FALSE, delivered |-> -1,
     from |-> ActiveZone, selected |-> -1, stored |-> -1]

\* a zone renders its clickable container unless the task widget shows its
\* loading or error text
Clickable(z) == KindOf(z) = "Task" => widgets[z].status = "ok"

\* onActivate as the page passes it, or nothing
Activate(z) ==
    IF hasActivate THEN activateZone(z)
    ELSE [fi |-> focusedIndex, act |-> isActive]

\* onActivate called only by a widget that is not active
ActivateIfInactive(z) ==
    IF ActiveZone = z THEN [fi |-> focusedIndex, act |-> isActive]
    ELSE Activate(z)

\* click on a zone outside its rows: onClick = onActivate
ClickZone(z) ==
    /\ hasActivate
    /\ Clickable(z)
    /\ LET a == Activate(z) IN Render(a.fi, a.act, widgets)
    /\ ev' = ClickEvent
    /\ scen' = -1

\* click on the header row
ClickHeader(z) ==
    /\ Clickable(z)
    /\ LET c == CompOf(z)
           w == widgets[z]
       IN  \/ /\ c = "timer"
              /\ Render(focusedIndex, isActive,
                        [widgets EXCEPT ![z] = DdToggle(w)])
           \/ /\ c = "queue"
              /\ LET a == ActivateIfInactive(z)
                 IN  Render(a.fi, a.act,
                            [widgets EXCEPT ![z].menuOpen = ~w.menuOpen,
                                            ![z].cursorIndex = 0])
           \/ /\ c = "Photo"
              /\ ActiveZone = z
              /\ Render(focusedIndex, isActive,
                        [widgets EXCEPT ![z].menuOpen = ~w.menuOpen,
                                        ![z].cursorIndex = 0])
    /\ ev' = OtherEvent
    /\ scen' = -1

\* click on a row of the open submenu
ClickSubmenu(z) ==
    /\ Clickable(z)
    /\ widgets[z].sub > 0
    /\ \E arr \in Arrivals :
         LET c == CompOf(z)
             w == widgets[z]
         IN  \/ /\ c = "timer"
                /\ w.ddOpen
                /\ Render(focusedIndex, isActive,
                          [widgets EXCEPT ![z] = DdSelect(w, arr)])
             \/ /\ c = "queue"
                /\ w.menuOpen
                /\ Render(focusedIndex, isActive,
                          [widgets EXCEPT ![z] = handleListChange(w, arr)])
             \/ /\ c = "Photo"
                /\ ActiveZone = z
                /\ w.menuOpen
                /\ Render(focusedIndex, isActive,
                          [widgets EXCEPT ![z].menuOpen = FALSE])
    /\ \E k \in 0 .. (widgets[z].sub - 1) :
         ev' = [OtherEvent EXCEPT !.selected = k, !.stored = k]
    /\ scen' = -1

\* click on content row j: a task or a playlist
ClickRow(z, j) ==
    /\ Clickable(z)
    /\ j < widgets[z].content
    /\ LET c == CompOf(z)
           a == ActivateIfInactive(z)
       IN  \/ /\ c \in {"timer", "queue"}
              /\ Render(a.fi, a.act, widgets)
           \/ /\ c = "Music"
              /\ Render(a.fi, a.act, [widgets EXCEPT ![z].cursorIndex = j])
    /\ ev' = OtherEvent
    /\ scen' = -1

\* deactivate() of useZoneFocus
Deactivate ==
    /\ hookRev \in {1, 2}
    /\ Render(focusedIndex, FALSE, widgets)
    /\ ev' = OtherEvent
    /\ scen' = -1

\* a click on the page outside every zone: no zone's onClick runs, the pages
\* register no other click handler and none of them takes deactivate from the
\* hook
ClickOutside ==
    /\ Render(focusedIndex, isActive, widgets)
    /\ ev' = [ClickEvent EXCEPT !.type = "outside"]
    /\ scen' = -1

\* the submenu list (task lists, folders) is fetched while the menu is open
SubmenuArrives(z, n) ==
    /\ CompOf(z) \in {"timer", "queue", "Photo"}
    /\ widgets[z].menuOpen
    /\ Render(focusedIndex, isActive, [widgets EXCEPT ![z].sub = n])
    /\ ev' = OtherEvent
    /\ scen' = -1

\* the content list (tasks, playlists) is fetched or refetched
ContentArrives(z, n) ==
    /\ CompOf(z) \in {"timer", "queue", "Music"}
    /\ Render(focusedIndex, isActive,
              [widgets EXCEPT ![z].content = n, ![z].status = "ok"])
    /\ ev' = OtherEvent
    /\ scen' = -1

\* the fetch of the tasks fails: the widget renders its error text
ContentFails(z) ==
    /\ CompOf(z) \in {"timer", "queue"}
    /\ Render(focusedIndex, isActive,
              [widgets EXCEPT ![z].status = "error", ![z].ddOpen = FALSE])
    /\ ev' = OtherEvent
    /\ scen' = -1

\* Spec follows the navigation state on every page.  The completion state of
\* the tasks never feeds back into the navigation state (a completed task
\* leaves the list through the refetch of ContentArrives), so Spec leaves it
\* alone; SpecTasks below follows it on the pages with a task widget.
Next ==
    \/ \E key \in Keys : KeyDown(key) /\ UNCHANGED <<taskVars, sessionVars, otherVars>>
    \/ \E z \in Zones : ClickZone(z) /\ UNCHANGED <<taskVars, sessionVars, otherVars>>
    \/ \E z \in Zones : ClickHeader(z) /\ UNCHANGED <<taskVars, sessionVars, otherVars>>
    \/ \E z \in Zones : ClickSubmenu(z) /\ UNCHANGED <<taskVars, sessionVars, otherVars>>
    \/ \E z \in Zones, j \in 0 .. (MaxContent - 1) :
         ClickRow(z, j) /\ UNCHANGED <<taskVars, sessionVars, otherVars>>
    \/ Deactivate /\ UNCHANGED <<taskVars, sessionVars, otherVars>>
    \/ ClickOutside /\ UNCHANGED <<taskVars, sessionVars, otherVars>>
    \/ \E z \in Zones, n \in 0 .. MaxSub :
         SubmenuArrives(z, n) /\ UNCHANGED <<taskVars, sessionVars, otherVars>>
    \/ \E z \in Zones, n \in 0 .. MaxContent :
         ContentArrives(z, n) /\ UNCHANGED <<taskVars, sessionVars, otherVars>>
    \/ \E z \in Zones : ContentFails(z) /\ UNCHANGED <<taskVars, sessionVars, otherVars>>

Spec == Init /\ [][Next]_vars

\* ---------------------------------------------- the completion of tasks
\* SpecTasks follows the queued set, the grace timers and the completeTask
\* calls on the pages that render a task widget, under the revision of
\* useZoneFocus that has activateZone and deactivate and prevents only the
\* keys it handles.  The task-lists query returns no list here: choosing a
\* list is followed in Spec.

\* the pages that render a task widget: the tasks page (one zone, no
\* onActivate) and the two-zone home page (task list, calendar)
TaskPages ==
    {[layout |-> <<"Task">>, hasActivate |-> FALSE],
     [layout |-> <<"Task", "Plain">>, hasActivate |-> TRUE]}

InitTasks ==
    /\ hookRev = 2
    /\ taskRev \in TaskRevs
    /\ \E p \in TaskPages :
         /\ layout = p.layout
         /\ hasActivate = p.hasActivate
    /\ hasActivate => hookRev \in {1, 2}
    /\ focusedIndex = -1
    /\ isActive = FALSE
    /\ widgets = [z \in 0 .. (Len(layout) - 1) |-> InitWidget(layout[z + 1])]
    /\ ev = NoEvent
    /\ scen = 0
    /\ listener = Mounted
    /\ InitTaskState
    /\ InitSession
    /\ InitBrowser
    /\ InitLater
    /\ InitStoreIdle

\* the zone of the task widget
TaskZone == CHOOSE z \in Zones : KindOf(z) = "Task"

\* toggleQueued(taskId) of the commit-on-exit revision
toggleQueued(q, id) == IF id \in q THEN q \ {id} ELSE q \cup {id}

toggleCompleteNoCancel(p, id) ==
    [ids |-> p.ids \cup {id}, timers |-> p.timers \cup {id},
     timeouts |-> [p.timeouts EXCEPT ![id] = @ + 1]]

\* toggleComplete(taskId) of the grace-timer revision: an existing timer is
\* cleared and forgotten, otherwise a 3-second timeout is scheduled
toggleComplete(p, id) ==
    IF id \in p.timers
      THEN [ids |-> p.ids \ {id}, timers |-> p.timers \ {id},
            timeouts |-> [p.timeouts EXCEPT ![id] = @ - 1]]
      ELSE [ids |-> p.ids \cup {id}, timers |-> p.timers \cup {id},
            timeouts |-> [p.timeouts EXCEPT ![id] = @ + 1]]

TimerCallbackKeepsEntry(p, id) ==
    [ids |-> p.ids \ {id}, timers |-> p.timers,
     timeouts |-> [p.timeouts EXCEPT ![id] = @ - 1]]

\* the timeout callback of task id, before its mutation.mutate(taskId)
TimerCallback(p, id) ==
    [ids |-> p.ids \ {id}, timers |-> p.timers \ {id},
     timeouts |-> [p.timeouts EXCEPT ![id] = @ - 1]]

CommitQueuedKeep(q) == [calls |-> q, queued |-> q]

\* the deactivation branch of the effect of the commit-on-exit revision:
\* mutation.mutate(id) for every queued id, then setQueued(new Set())
CommitQueued(q) ==
    IF q # {} THEN [calls |-> q, queued |-> {}]
              ELSE [calls |-> {}, queued |-> q]

mutationFailedRequeue(q, p, id) == [queued |-> q \cup {id}, pendingIds |-> p]

\* a rejected completeTask: useMutation has no onError option and mutate()
\* swallows the rejection, so no state of the widget is written
mutationFailed(q, p, id) == [queued |-> q, pendingIds |-> p]

\* the task the key handler of the task widget toggles, or 0: Enter on a
\* task row (commit on exit), ArrowLeft on a task row (grace timer)
KeyToggles(key) ==
    IF ActiveZone # TaskZone THEN 0
    ELSE LET c == CompOf(TaskZone)
             w == widgets[TaskZone]
             i == w.cursorIndex
             lc == listCount(c, w)
             taskIndex == i - 1 - lc
             onTask == taskIndex >= 0 /\ taskIndex < w.content
         IN  IF /\ c = "queue"
                /\ key = "Enter"
                /\ i # 0
                /\ ~(w.menuOpen /\ i >= 1 /\ i < 1 + lc)
                /\ onTask
               THEN taskIndex + 1
             ELSE IF c = "timer" /\ key = "ArrowLeft" /\ onTask
               THEN taskIndex + 1
             ELSE 0

\* the completion state after an event whose handler toggled task id (0 for
\* none) and after the effects of its commit: the deactivation effect of the
\* commit-on-exit revision runs when the task zone stops being active
TaskStep(id) ==
    LET exits == /\ ActiveZone = TaskZone
                 /\ ~(isActive' /\ focusedIndex' = TaskZone)
        q1 == IF taskRev = "queue" /\ id # 0
                THEN toggleQueued(queued, id) ELSE queued
        p0 == [ids |-> pendingIds, timers |-> pendingTimers,
               timeouts |-> timeouts]
        p1 == IF taskRev = "timer" /\ id # 0
                THEN toggleComplete(p0, id) ELSE p0
        out == IF taskRev = "queue" /\ exits
                 THEN CommitQueued(q1)
                 ELSE [calls |-> {}, queued |-> q1]
    IN  /\ queued' = out.queued
        /\ pendingIds' = p1.ids
        /\ pendingTimers' = p1.timers
        /\ timeouts' = p1.timeouts
        /\ inflight' = inflight \cup out.calls
        /\ calls' = [t \in TaskIds |-> IF t \in out.calls THEN 1 ELSE 0]
        /\ UNCHANGED <<sessionVars, otherVars>>

\* an event of the completion pipeline that no listener of the page sees
TaskEvent(type) == [OtherEvent EXCEPT !.type = type]

\* click on the checkbox of task row j (grace timer): stopPropagation, no
\* activation
ClickCheckbox(j) ==
    /\ taskRev = "timer"
    /\ Clickable(TaskZone)
    /\ j < widgets[TaskZone].content
    /\ Render(focusedIndex, isActive, widgets)
    /\ ev' = OtherEvent
    /\ scen' = -1
    /\ TaskStep(j + 1)

\* the 3-second timeout of task id fires
TimerFires(id) ==
    /\ timeouts[id] > 0
    /\ LET p == TimerCallback([ids |-> pendingIds, timers |-> pendingTimers,
                               timeouts |-> timeouts], id)
       IN  /\ pendingIds' = p.ids
           /\ pendingTimers' = p.timers
           /\ timeouts' = p.timeouts
    /\ inflight' = inflight \cup {id}
    /\ calls' = [NoCalls EXCEPT ![id] = 1]
    /\ UNCHANGED <<queued, sessionVars, otherVars>>
    /\ Render(focusedIndex, isActive, widgets)
    /\ ev' = TaskEvent("timer")
    /\ scen' = -1

\* completeTask of task id resolves: onSuccess invalidates the tasks query,
\* whose refetch is ContentArrives
CommitSucceeds(id) ==
    /\ id \in inflight
    /\ inflight' = inflight \ {id}
    /\ calls' = NoCalls
    /\ UNCHANGED <<queued, pendingIds, pendingTimers, timeouts, sessionVars, otherVars>>
    /\ Render(focusedIndex, isActive, widgets)
    /\ ev' = TaskEvent("resolved")
    /\ scen' = -1

\* completeTask of task id rejects
CommitFails(id) ==
    /\ id \in inflight
    /\ inflight' = inflight \ {id}
    /\ calls' = NoCalls
    /\ LET r == mutationFailed(queued, pendingIds, id)
       IN  /\ queued' = r.queued
           /\ pendingIds' = r.pendingIds
    /\ UNCHANGED <<pendingTimers, timeouts, sessionVars, otherVars>>
    /\ Render(focusedIndex, isActive, widgets)
    /\ ev' = TaskEvent("rejected")
    /\ scen' = -1

\* the task a click on content row j toggles, or 0: the row itself in the
\* commit-on-exit revision, nothing in the grace-timer revision (the title
\* opens the link)
RowToggles(j) == IF taskRev = "queue" THEN j + 1 ELSE 0

NextTasks ==
    \/ \E key \in Keys : KeyDown(key) /\ TaskStep(KeyToggles(key))
    \/ \E z \in Zones : ClickZone(z) /\ TaskStep(0)
    \/ \E z \in Zones : ClickHeader(z) /\ TaskStep(0)
    \/ \E z \in Zones, j \in 0 .. (MaxContent - 1) :
         ClickRow(z, j) /\ TaskStep(RowToggles(j))
    \/ \E j \in 0 .. (MaxContent - 1) : ClickCheckbox(j)
    \/ Deactivate /\ TaskStep(0)
    \/ \E z \in Zones, n \in 0 .. MaxContent :
         ContentArrives(z, n) /\ TaskStep(0)
    \/ \E z \in Zones : ContentFails(z) /\ TaskStep(0)
    \/ \E id \in TaskIds : TimerFires(id)
    \/ \E id \in TaskIds : CommitSucceeds(id)
    \/ \E id \in TaskIds : CommitFails(id)

SpecTasks == InitTasks /\ [][NextTasks]_vars

\* ------------------------------------------------- the session and its token
\* SpecToken follows the token record of the session cookie through sign-in,
\* the passing of time and session reads; a read whose token needs a refresh
\* waits for the answer of the identity provider.
InitToken ==
    /\ hookRev = 2
    /\ taskRev = "timer"
    /\ layout = <<"Task">>
    /\ hasActivate = FALSE
    /\ focusedIndex = -1
    /\ isActive = FALSE
    /\ widgets = [z \in 0 .. (Len(layout) - 1) |-> InitWidget(layout[z + 1])]
    /\ ev = NoEvent
    /\ scen = 0
    /\ listener = Mounted
    /\ InitTaskState
    /\ InitSession
    /\ InitBrowser
    /\ InitLater
    /\ InitStoreIdle

\* the jwt callback with account set: the first sign-in, or a sign-in again
\* after the session carried an error
SignIn(life) ==
    /\ cookie.error # "none"
    /\ \A r \in Readers : req[r].pc = "idle"
    /\ issued < MaxTokens
    /\ issued' = issued + 1
    /\ cookie' = SignInToken(issued + 1,
                             IF life = 0 THEN 0 ELSE (now \div 1000) + life,
                             now)
    /\ UNCHANGED <<now, req, navVars, taskVars, otherVars>>

\* time passes
TimePasses ==
    /\ now < MaxTime * Tick
    /\ now' = now + Tick
    /\ UNCHANGED <<cookie, req, issued, navVars, taskVars, otherVars>>

\* the jwt callback of session read r, up to its return or to the fetch of
\* refreshAccessToken
Read(r) ==
    /\ req[r].pc = "idle"
    /\ cookie # NoToken
    /\ IF TokenValid(cookie, now)
         THEN req' = [req EXCEPT ![r] = [pc |-> "done", token |-> cookie,
                                         refreshes |-> 0, out |-> cookie]]
         ELSE req' = [req EXCEPT ![r] = [pc |-> "refreshing",
                                         token |-> cookie, refreshes |-> 1,
                                         out |-> NoToken]]
    /\ UNCHANGED <<now, cookie, issued, navVars, taskVars, otherVars>>

\* the provider answers the refresh call of read r with a token
RefreshSucceeds(r, expires_in, rotates) ==
    /\ req[r].pc = "refreshing"
    /\ issued < MaxTokens
    /\ issued' = issued + 1
    /\ LET t == Refreshed(req[r].token, issued + 1, expires_in, rotates, now)
       IN  /\ req' = [req EXCEPT ![r].pc = "done", ![r].out = t]
           /\ cookie' = t
    /\ UNCHANGED <<now, navVars, taskVars, otherVars>>

\* the provider answers the refresh call of read r with an error
RefreshFails(r) ==
    /\ req[r].pc = "refreshing"
    /\ LET t == RefreshError(req[r].token)
       IN  /\ req' = [req EXCEPT ![r].pc = "done", ![r].out = t]
           /\ cookie' = t
    /\ UNCHANGED <<now, issued, navVars, taskVars, otherVars>>

\* the response of read r is sent
ReadEnds(r) ==
    /\ req[r].pc = "done"
    /\ req' = [req EXCEPT ![r] = IdleRead]
    /\ UNCHANGED <<now, cookie, issued, navVars, taskVars, otherVars>>

NextToken ==
    \/ \E life \in Lifetimes : SignIn(life)
    \/ TimePasses
    \/ \E r \in Readers : Read(r)
    \/ \E r \in Readers, e \in Lifetimes, b \in BOOLEAN :
         RefreshSucceeds(r, e, b)
    \/ \E r \in Readers : RefreshFails(r)
    \/ \E r \in Readers : ReadEnds(r)

SpecToken == InitToken /\ [][NextToken]_vars

\* ------------------------------------------------- the session in the browser
\* SpecPage follows a session from the cookie to the browser: the pages call
\* auth() when they render on the server, useSession fetches the session
\* object, and the widgets of a rendered page issue REST calls with the
\* accessToken of that object.  The clock stands still here; a sign-in may
\* hand out a token that is already inside the buffer.

\* the routes whose page component tests the session, and the tasks route
GatedRoutes == {"home", "music"}

\* !session || session.error === 'RefreshTokenError'
NeedsSignIn(s) == s = NoSession \/ s.error = "RefreshTokenError"

\* enabled: !!session?.accessToken of the widgets' queries
QueryEnabled(s) == s # NoSession /\ s.accessToken # 0

\* auth() of a request that carries no session cookie
ReadNoCookie(r) ==
    /\ req[r].pc = "idle"
    /\ cookie = NoToken
    /\ req' = [req EXCEPT ![r] = [pc |-> "done", token |-> NoToken,
                                  refreshes |-> 0, out |-> NoToken]]
    /\ UNCHANGED <<now, cookie, issued, navVars, taskVars, otherVars>>

\* HomePage / MusicPage render with the session of read r
GatedPage(r, route) ==
    /\ req[r].pc = "done"
    /\ view' = [route |-> route,
                prompt |-> NeedsSignIn(SessionFor(req[r].out))]
    /\ req' = [req EXCEPT ![r] = IdleRead]
    /\ UNCHANGED <<now, cookie, issued, client, apiCall, navVars, taskVars,
                   laterVars, storeVars>>

\* TasksPage renders
TasksPage ==
    /\ view' = [route |-> "tasks", prompt |-> FALSE]
    /\ UNCHANGED <<now, cookie, req, issued, client, apiCall, navVars,
                   taskVars, laterVars, storeVars>>

\* the answer to useSession's GET /api/auth/session arrives
SessionArrives(r) ==
    /\ view # NoView
    /\ req[r].pc = "done"
    /\ client' = SessionFor(req[r].out)
    /\ req' = [req EXCEPT ![r] = IdleRead]
    /\ UNCHANGED <<now, cookie, issued, view, apiCall, navVars, taskVars,
                   laterVars, storeVars>>

\* a query of a rendered widget runs its queryFn
WidgetFetch ==
    /\ view # NoView
    /\ ~view.prompt
    /\ QueryEnabled(client)
    /\ apiCall' = [accessToken |-> client.accessToken, error |-> client.error]
    /\ UNCHANGED <<now, cookie, req, issued, client, view, navVars, taskVars,
                   laterVars, storeVars>>

NextPage ==
    \/ \E life \in Lifetimes : SignIn(life)
    \/ \E r \in Readers : Read(r)
    \/ \E r \in Readers : ReadNoCookie(r)
    \/ \E r \in Readers, e \in Lifetimes, b \in BOOLEAN :
         RefreshSucceeds(r, e, b)
    \/ \E r \in Readers : RefreshFails(r)
    \/ \E r \in Readers, route \in GatedRoutes : GatedPage(r, route)
    \/ TasksPage
    \/ \E r \in Readers : SessionArrives(r)
    \/ WidgetFetch

SpecPage == InitToken /\ [][NextPage]_vars

\* ------------------------------------------------------------ pagination
\* SpecDrain runs the drain functions against an endpoint that serves a chain
\* of pages.
InitDrain ==
    /\ hookRev = 2
    /\ taskRev = "timer"
    /\ layout = <<"Task">>
    /\ hasActivate = FALSE
    /\ focusedIndex = -1
    /\ isActive = FALSE
    /\ widgets = [z \in 0 .. (Len(layout) - 1) |-> InitWidget(layout[z + 1])]
    /\ ev = NoEvent
    /\ scen = 0
    /\ listener = Mounted
    /\ InitTaskState
    /\ InitSession
    /\ InitBrowser
    /\ chain \in Chains
    /\ drain = IdleDrain
    /\ InitFanIdle
    /\ InitMore
    /\ InitStoreIdle

\* a drain function is called
DrainCall(fn) ==
    /\ drain.pc \in {"idle", "done"}
    /\ drain.n < MaxDrains
    /\ drain' = StartDrain(fn, drain.n + 1)
    /\ UNCHANGED <<chain, navVars, taskVars, sessionVars, browserVars,
                   fanVars, storeVars, moreVars>>

\* one pass of the loop, with the answer of the endpoint
DrainPass ==
    /\ drain.pc = "loop"
    /\ drain' = DrainBody(drain, Respond(chain, drain.pageToken))
    /\ UNCHANGED <<chain, navVars, taskVars, sessionVars, browserVars,
                   fanVars, storeVars, moreVars>>

NextDrain ==
    \/ \E fn \in Drains : DrainCall(fn)
    \/ DrainPass

SpecDrain == InitDrain /\ [][NextDrain]_vars

\* ------------------------------------------------------ calendar fan-out
\* SpecFan runs fetchAllCalendarEvents against endpoints whose answers are
\* fixed; the events requests of the selected calendars complete in any order.
InitFan ==
    /\ hookRev = 2
    /\ taskRev = "timer"
    /\ layout = <<"Task">>
    /\ hasActivate = FALSE
    /\ focusedIndex = -1
    /\ isActive = FALSE
    /\ widgets = [z \in 0 .. (Len(layout) - 1) |-> InitWidget(layout[z + 1])]
    /\ ev = NoEvent
    /\ scen = 0
    /\ listener = Mounted
    /\ InitTaskState
    /\ InitSession
    /\ InitBrowser
    /\ chain = <<>>
    /\ drain = IdleDrain
    /\ calApi \in CalApis
    /\ fan = IdleFan
    /\ InitMore
    /\ InitStoreIdle

offFan ==
    <<navVars, taskVars, sessionVars, browserVars, drainVars, storeVars,
      moreVars>>

\* fetchAllCalendarEvents up to Promise.allSettled: the calendar list is
\* fetched (a failure rejects the call) and one events request per selected
\* calendar is started
FanStart ==
    /\ fan.pc = "idle"
    /\ IF calApi.listOk
         THEN fan' = [pc |-> "waiting",
                      calendars |-> SelectedOf(calApi.cals, 1),
                      results |-> [c \in 1 .. Len(calApi.cals) |->
                                     [status |-> "pending", value |-> <<>>]],
                      order |-> <<>>,
                      out |-> <<>>]
         ELSE fan' = [IdleFan EXCEPT !.pc = "rejected"]
    /\ UNCHANGED <<calApi, offFan>>

\* the events request of calendar c settles
Settle(c) ==
    /\ fan.pc = "waiting"
    /\ c \in Range(fan.calendars)
    /\ fan.results[c].status = "pending"
    /\ fan' = [fan EXCEPT
                 !.results[c] =
                    IF calApi.cals[c].ok
                      THEN [status |-> "fulfilled",
                            value |-> Enrich(c, calApi.cals[c].items)]
                      ELSE [status |-> "rejected", value |-> <<>>],
                 !.order = Append(fan.order, c)]
    /\ UNCHANGED <<calApi, offFan>>

\* every request has settled: the rest of fetchAllCalendarEvents
FanMerge ==
    /\ fan.pc = "waiting"
    /\ \A c \in Range(fan.calendars) : fan.results[c].status # "pending"
    /\ fan' = Merge(fan)
    /\ UNCHANGED <<calApi, offFan>>

NextFan ==
    \/ FanStart
    \/ \E c \in 1 .. MaxCals : Settle(c)
    \/ FanMerge

SpecFan == InitFan /\ [][NextFan]_vars

\* ---------------------------------------------------- persisted selection
\* SpecStore follows one widget with a persisted selection through mounts,
\* commits of submenu items and unmounts (page reloads).
InitStore ==
    /\ hookRev = 2
    /\ \E k \in {"Task", "Photo"} :
         /\ layout = <<k>>
         /\ taskRev \in (IF k = "Task" THEN TaskRevs ELSE {"timer"})
    /\ hasActivate = FALSE
    /\ focusedIndex = -1
    /\ isActive = FALSE
    /\ widgets = [z \in 0 .. (Len(layout) - 1) |-> InitWidget(layout[z + 1])]
    /\ ev = NoEvent
    /\ scen = 0
    /\ listener = Mounted
    /\ InitTaskState
    /\ InitSession
    /\ InitBrowser
    /\ InitLater
    /\ storage \in [PageIds -> Stores(Comp(layout[1], taskRev))]
    /\ picker = Unmounted

\* the component that persists the selection
Picker == Comp(layout[1], taskRev)

offStore == <<navVars, taskVars, sessionVars, browserVars, laterVars>>

\* the widget mounts on the page with the given pageId
MountWidget(pageId, withDd) ==
    /\ ~picker.mounted
    /\ LET m == MountOf(Picker, picker, storage[pageId], pageId, withDd)
       IN  /\ picker' = m.w
           /\ storage' = [storage EXCEPT ![pageId] = m.st]
    /\ UNCHANGED offStore

\* the TaskWidget leaves its loading or error text and renders the Dropdown
DdMounts ==
    /\ Picker = "timer"
    /\ picker.mounted
    /\ ~picker.dd
    /\ picker' = DdRead(picker, storage[picker.page])
    /\ UNCHANGED <<storage, offStore>>

\* a refetch fails: the error text replaces the Dropdown
DdUnmounts ==
    /\ Picker = "timer"
    /\ picker.mounted
    /\ picker.dd
    /\ picker' = [picker EXCEPT !.dd = FALSE, !.ddId = "", !.ddName = ""]
    /\ UNCHANGED <<storage, offStore>>

\* an item of the submenu is committed by Enter or by a click
CommitItem(item) ==
    /\ picker.mounted
    /\ Picker = "timer" => picker.dd
    /\ LET r == select(Picker, picker, storage[picker.page], item)
       IN  /\ picker' = r.w
           /\ storage' = [storage EXCEPT ![picker.page] = r.st]
    /\ UNCHANGED offStore

\* the page is left or reloaded
UnmountWidget ==
    /\ picker.mounted
    /\ picker' = [Unmounted EXCEPT !.lasts = picker.lasts]
    /\ UNCHANGED <<storage, offStore>>

NextStore ==
    \/ \E pageId \in PageIds, b \in BOOLEAN : MountWidget(pageId, b)
    \/ DdMounts
    \/ DdUnmounts
    \/ \E item \in Items : CommitItem(item)
    \/ UnmountWidget

SpecStore == InitStore /\ [][NextStore]_vars

\* ------------------------------------------- the task widget and its lists
\* SpecLists follows the task widget through the marking of tasks, the
\* selection of another task list, the commits and the unmount of the page.
\* The rows shown are the tasks of the selected list; the settling of the
\* requests is followed in SpecTasks.
offLists ==
    <<sessionVars, browserVars, drainVars, fanVars, storeVars, loaderVars>>

\* mutationFn of useMutation: completeTask with the selectedListId of the
\* render whose options the mutation holds when mutate runs
mutationFn(listId, taskId) == [listId |-> listId, taskId |-> taskId]

cleanupNone(p) == p

\* the cleanup of the mount effect of the grace-timer revision: clearTimeout
\* for every entry of pendingTimers
cleanup(p) ==
    [p EXCEPT !.timeouts = [id \in TaskIds |->
                              IF id \in p.timers THEN 0 ELSE p.timeouts[id]]]

\* an event of the mounted widget that toggles task id (0 for none), leaves
\* the controller at (a.fi, a.act) and the selection at listId, with the
\* effects of its commit
ListsStep(id, a, listId, type) ==
    LET exits == /\ ActiveZone = TaskZone
                 /\ ~(a.act /\ a.fi = TaskZone)
        q1 == IF taskRev = "queue" /\ id # 0
                THEN toggleQueued(queued, id) ELSE queued
        p0 == [ids |-> pendingIds, timers |-> pendingTimers,
               timeouts |-> timeouts]
        p1 == IF taskRev = "timer" /\ id # 0
                THEN toggleComplete(p0, id) ELSE p0
        out == IF taskRev = "queue" /\ exits
                 THEN CommitQueued(q1)
                 ELSE [calls |-> {}, queued |-> q1]
    IN  /\ mounted
        /\ Render(a.fi, a.act, widgets)
        /\ ev' = TaskEvent(type)
        /\ scen' = -1
        /\ queued' = out.queued
        /\ pendingIds' = p1.ids
        /\ pendingTimers' = p1.timers
        /\ timeouts' = p1.timeouts
        /\ calls' = [t \in TaskIds |-> IF t \in out.calls THEN 1 ELSE 0]
        /\ selectedListId' = listId
        /\ mutations' = {mutationFn(listId, t) : t \in out.calls}
        /\ UNCHANGED <<inflight, mounted, offLists>>

\* Enter on the focused task zone, or a click that reaches activateZone
ListActivate ==
    /\ ActiveZone # TaskZone
    /\ ListsStep(0, activateZone(TaskZone), selectedListId, "activate")

\* Escape in the active task zone
ListDeactivate ==
    /\ ActiveZone = TaskZone
    /\ ListsStep(0, ActiveNav("Escape", focusedIndex), selectedListId,
                 "deactivate")

\* task id, a row of the list shown, is toggled: by Enter or a click on its
\* row (commit on exit, the click calls onActivate first), by ArrowLeft or a
\* click on its checkbox (grace timer)
ListToggle(id) ==
    /\ ListOf(id) = selectedListId
    /\ ListsStep(id,
                 IF taskRev = "queue" THEN ActivateIfInactive(TaskZone)
                 ELSE [fi |-> focusedIndex, act |-> isActive],
                 selectedListId, "toggle")

\* another list is chosen in the submenu: setSelectedListId(listId)
ListSelect(listId) ==
    /\ listId # selectedListId
    /\ ListsStep(0, [fi |-> focusedIndex, act |-> isActive], listId, "select")

\* the 3-second timeout of task id fires: its callback calls mutate
GraceEnds(id) ==
    /\ timeouts[id] > 0
    /\ LET p == TimerCallback([ids |-> pendingIds, timers |-> pendingTimers,
                               timeouts |-> timeouts], id)
       IN  /\ pendingIds' = p.ids
           /\ pendingTimers' = p.timers
           /\ timeouts' = p.timeouts
    /\ calls' = [NoCalls EXCEPT ![id] = 1]
    /\ mutations' = {mutationFn(selectedListId, id)}
    /\ ev' = TaskEvent("timer")
    /\ scen' = -1
    /\ UNCHANGED <<hookRev, taskRev, layout, hasActivate, focusedIndex,
                   isActive, widgets, listener, queued, inflight,
                   selectedListId, mounted, offLists>>

\* the page is left: the widget unmounts and the cleanups of its effects run
ListUnmount ==
    /\ mounted
    /\ mounted' = FALSE
    /\ LET p == cleanup([ids |-> pendingIds, timers |-> pendingTimers,
                         timeouts |-> timeouts])
       IN  timeouts' = p.timeouts
    /\ calls' = NoCalls
    /\ mutations' = {}
    /\ ev' = TaskEvent("unmount")
    /\ scen' = -1
    /\ UNCHANGED <<hookRev, taskRev, layout, hasActivate, focusedIndex,
                   isActive, widgets, listener, queued, pendingIds,
                   pendingTimers, inflight, selectedListId, offLists>>

\* the page is opened again: the controller and the widget start from their
\* initial state, with the list that was stored
ListMount ==
    /\ ~mounted
    /\ mounted' = TRUE
    /\ focusedIndex' = -1
    /\ isActive' = FALSE
    /\ widgets' = [z \in Zones |-> InitWidget(KindOf(z))]
    /\ listener' = Mounted
    /\ queued' = {}
    /\ pendingIds' = {}
    /\ pendingTimers' = {}
    /\ calls' = NoCalls
    /\ mutations' = {}
    /\ ev' = TaskEvent("mount")
    /\ scen' = -1
    /\ UNCHANGED <<hookRev, taskRev, layout, hasActivate, timeouts, inflight,
                   selectedListId, offLists>>

NextLists ==
    \/ ListActivate
    \/ ListDeactivate
    \/ \E id \in TaskIds : ListToggle(id)
    \/ \E listId \in Lists : ListSelect(listId)
    \/ \E id \in TaskIds : GraceEnds(id)
    \/ ListUnmount
    \/ ListMount

SpecLists == InitTasks /\ [][NextLists]_vars

\* ------------------------------------------------- YouTube iframe API loader
\* SpecLoader follows the module state of the loader while player hooks
\* mount and unmount and the script of the API loads.
InitPlayers ==
    /\ hookRev = 2
    /\ taskRev = "timer"
    /\ layout = <<"Music">>
    /\ hasActivate = TRUE
    /\ focusedIndex = -1
    /\ isActive = FALSE
    /\ widgets = [z \in 0 .. (Len(layout) - 1) |-> InitWidget(layout[z + 1])]
    /\ ev = NoEvent
    /\ scen = 0
    /\ listener = Mounted
    /\ InitTaskState
    /\ InitSession
    /\ InitBrowser
    /\ InitLater
    /\ InitStoreIdle

offLoader ==
    <<navVars, taskVars, sessionVars, browserVars, drainVars, fanVars,
      storeVars, listVars>>

\* the callbacks c[from] .. c[Len(c)] called on the hooks, in order
RECURSIVE RunAll(_, _, _)
RunAll(pls, c, from) ==
    IF from > Len(c) THEN pls
    ELSE RunAll([pls EXCEPT ![c[from].hook] = RunCallback(@, c[from])],
                c, from + 1)

\* the effect of hook h runs: ensureAPI with a callback of this run
HookMounts(h) ==
    /\ ~players[h].mounted
    /\ players[h].runs < MaxMounts
    /\ LET n == players[h].runs + 1
           l == ensureAPI(loader, Callback(h, n))
           pls == [players EXCEPT ![h].mounted = TRUE, ![h].runs = n]
       IN  /\ loader' = l
           /\ players' = RunAll(pls, l.ran, Len(loader.ran) + 1)
    /\ UNCHANGED offLoader

\* the cleanup of the effect of hook h: destroyed = true, the player is
\* destroyed
HookUnmounts(h) ==
    /\ players[h].mounted
    /\ players' = [players EXCEPT ![h].mounted = FALSE, ![h].player = FALSE]
    /\ UNCHANGED <<loader, offLoader>>

\* the script has loaded: window.YT.Player exists and the script calls
\* window.onYouTubeIframeAPIReady, once
ScriptReady ==
    /\ loader.tags > 0
    /\ loader.handlers > 0
    /\ ~loader.YT
    /\ LET l == onYouTubeIframeAPIReady([loader EXCEPT !.YT = TRUE])
       IN  /\ loader' = l
           /\ players' = RunAll(players, l.ran, Len(loader.ran) + 1)
    /\ UNCHANGED offLoader

NextLoader ==
    \/ \E h \in Hooks : HookMounts(h)
    \/ \E h \in Hooks : HookUnmounts(h)
    \/ ScriptReady

SpecLoader == InitPlayers /\ [][NextLoader]_vars

\* ----------------------------------------------------------------- claims
\* the last step was a keydown of a key in K
KeyStep(K) == ev'.type = "key" /\ ev'.key \in K

\* zones whose widget saw isActive = true at the last commit
ActiveWidgets == {z \in Zones : KindOf(z) # "Plain" /\ widgets[z].wasActive}

\* C1: in every reachable state isActive implies focusedIndex >= 0, and
\* -1 <= focusedIndex < zoneCount.
C1_FocusRange ==
    /\ isActive => focusedIndex >= 0
    /\ focusedIndex >= -1
    /\ focusedIndex < zoneCount

C1_Witness ==
    /\ isActive
    /\ focusedIndex = zoneCount - 1
    /\ zoneCount >= 2
    /\ ev.type = "key"

\* C2: at most one zone is active (zone k is active iff focusedIndex = k and
\* isActive; a widget sees exactly that), and activateZone(B) while zone
\* A # B is active leads in one step to B active and A not active.
C2_SingleActive ==
    /\ [](/\ Cardinality({z \in Zones : focusedIndex = z /\ isActive}) <= 1
          /\ Cardinality(ActiveWidgets) <= 1
          /\ \A z \in Zones :
               KindOf(z) # "Plain" =>
                 (widgets[z].wasActive <=> (focusedIndex = z /\ isActive)))
    /\ [][\A b \in Zones :
            (ActiveZone >= 0 /\ ActiveZone # b /\ ClickZone(b))
              => /\ isActive' /\ focusedIndex' = b
                 /\ ~(isActive' /\ focusedIndex' = ActiveZone)]_vars

C2_Witness ==
    /\ zoneCount = 3
    /\ isActive
    /\ focusedIndex = 1
    /\ widgets[1].wasActive
    /\ ~widgets[0].wasActive
    /\ ev.type = "click"
    /\ ev.from = 0

\* C3: while inactive, ArrowDown / ArrowRight sets focusedIndex to
\* (focusedIndex + 1) mod zoneCount, a value of 0 .. zoneCount-1; from -1 the
\* presses visit 0, 1, ..., zoneCount-1, 0, ... in that order.
C3_ForwardCycle ==
    [][(~isActive /\ KeyStep({"ArrowDown", "ArrowRight"}))
         => /\ focusedIndex' = (focusedIndex + 1) % zoneCount
            /\ focusedIndex' >= 0
            /\ focusedIndex' <= zoneCount - 1]_vars

C3_Witness ==
    /\ ev.type = "key"
    /\ ev.key = "ArrowRight"
    /\ ~isActive
    /\ focusedIndex = 0
    /\ zoneCount >= 3
    /\ scen = -1

\* C4 as stated: while inactive, ArrowUp / ArrowLeft sets focusedIndex to
\* (focusedIndex - 1 + zoneCount) mod zoneCount for every focusedIndex in
\* -1 .. zoneCount-1.
C4_Original ==
    [][(~isActive /\ KeyStep({"ArrowUp", "ArrowLeft"}))
         => focusedIndex' = (focusedIndex - 1 + zoneCount) % zoneCount]_vars

\* C4 amended: while inactive, ArrowUp / ArrowLeft sets focusedIndex to
\* (focusedIndex - 1 + zoneCount) mod zoneCount for every focusedIndex in
\* 0 .. zoneCount-1, and to zoneCount - 1 (the last zone) from the unfocused
\* state -1.
C4_BackwardCycle ==
    [][(~isActive /\ KeyStep({"ArrowUp", "ArrowLeft"}))
         => focusedIndex' =
              IF focusedIndex >= 0
                THEN (focusedIndex - 1 + zoneCount) % zoneCount
                ELSE zoneCount - 1]_vars

C4_Witness ==
    /\ ev.type = "key"
    /\ ev.key = "ArrowUp"
    /\ ~isActive
    /\ zoneCount >= 3
    /\ focusedIndex = zoneCount - 1
    /\ scen = -1

\* (focusedIndex, isActive) after each key of the documented scenario
ScenarioStates ==
    <<<<0, FALSE>>, <<0, TRUE>>, <<0, TRUE>>, <<0, FALSE>>, <<-1, FALSE>>>>

\* C5: Escape while active yields isActive = false with focusedIndex
\* unchanged; Escape while inactive and focused yields focusedIndex = -1; with
\* zoneCount = 3 the keys ArrowDown, Enter, ArrowDown, Escape, Escape pressed
\* from the initial state produce (0,false) (0,true) (0,true) (0,false)
\* (-1,false).
C5_EscapeLevels ==
    /\ [][KeyStep({"Escape"}) =>
            /\ isActive
                 => (~isActive' /\ focusedIndex' = focusedIndex)
            /\ (~isActive /\ focusedIndex >= 0)
                 => (~isActive' /\ focusedIndex' = -1)]_vars
    /\ []((scen \in 1 .. 5 /\ zoneCount = 3)
            => <<focusedIndex, isActive>> = ScenarioStates[scen])

C5_Witness ==
    /\ scen = 5
    /\ zoneCount = 3
    /\ layout[1] = "Task"
    /\ focusedIndex = -1

\* C6: an unrecognized key changes neither focusedIndex nor isActive and is
\* never default-prevented by the controller; Enter or Escape while inactive
\* and unfocused, and Space or MediaPlayPause while inactive, change neither.
C6_NavigationIgnored ==
    [][/\ KeyStep(OtherKeys)
            => /\ focusedIndex' = focusedIndex
               /\ isActive' = isActive
               /\ ~ev'.prevented
       /\ (~isActive /\ focusedIndex = -1 /\ KeyStep({"Enter", "Escape"}))
            => (focusedIndex' = -1 /\ ~isActive')
       /\ (~isActive /\ KeyStep({" ", "MediaPlayPause"}))
            => (focusedIndex' = focusedIndex /\ ~isActive')]_vars

C6_Witness ==
    /\ ev.type = "key"
    /\ ev.key = "Tab"
    /\ ~ev.prevented
    /\ ev.from = 0
    /\ isActive
    /\ hookRev = 1

\* C7: while a zone is active, a recognized key other than Escape leaves
\* focusedIndex and isActive unchanged, and the key handler of the active
\* zone receives the event.
C7_ActivePassThrough ==
    [][(isActive /\ KeyStep(NAV_KEYS \ {"Escape"}))
         => /\ focusedIndex' = focusedIndex
            /\ isActive'
            /\ HasKeyHandler(CompOf(focusedIndex))
                 => ev'.delivered = focusedIndex]_vars

C7_Witness ==
    /\ zoneCount = 3
    /\ ev.type = "key"
    /\ ev.from = 1
    /\ ev.key = "ArrowDown"
    /\ isActive
    /\ focusedIndex = 1
    /\ ev.delivered = 1
    /\ KindOf(1) = "Photo"

\* C8: while a zone is active, the controller calls preventDefault on no key
\* other than Escape.
C8_NoPreventWhileActive ==
    [][(isActive /\ ev'.type = "key" /\ ev'.key # "Escape")
         => ~ev'.prevented]_vars

\* zones whose widget has a row cursor
CursorZones == {z \in Zones : KindOf(z) # "Plain"}

\* totalCount as the widget of zone z computes it at render
TotalOf(z) == totalCount(CompOf(z), widgets[z])

\* C9: the row cursor of an activated widget (task list, folder picker,
\* playlist picker) is in range after any sequence of key presses, clicks,
\* activations, deactivations and data arrivals: 0 <= cursorIndex <
\* totalCount, or cursorIndex = -1 and totalCount = 0.  (A widget whose zone
\* is not active holds cursorIndex = -1 by design; the range is checked where
\* the cursor is shown.)
C9_CursorRange ==
    \A z \in CursorZones :
      ActiveZone = z =>
        \/ /\ widgets[z].cursorIndex >= 0
           /\ widgets[z].cursorIndex < TotalOf(z)
        \/ /\ widgets[z].cursorIndex = -1
           /\ TotalOf(z) = 0

\* C10: while a zone stays active, a step that changes menuOpen or the length
\* of the submenu or content list leaves cursorIndex below the totalCount of
\* the new lengths.
C10_ClampOnChange ==
    [][\A z \in {y \in CursorZones : headerCount(CompOf(y)) = 1} :
         (/\ ActiveZone = z
          /\ isActive' /\ focusedIndex' = z
          /\ \/ widgets'[z].menuOpen # widgets[z].menuOpen
             \/ widgets'[z].sub # widgets[z].sub
             \/ widgets'[z].content # widgets[z].content)
           => widgets'[z].cursorIndex
                < totalCount(CompOf(z), widgets'[z])]_vars

\* the widget of zone z received the keydown of the last step and its zone
\* stays active
WidgetKeyStep(z, K) ==
    /\ KeyStep(K)
    /\ ActiveZone = z
    /\ ev'.delivered = z
    /\ isActive'
    /\ focusedIndex' = z

\* C11: inside an active widget ArrowDown sets cursorIndex to
\* min(cursorIndex + 1, totalCount - 1) and ArrowUp sets it to
\* max(cursorIndex - 1, 0); the result is within 0 .. totalCount-1 for every
\* totalCount the widget can have, a playlist widget without playlists
\* included.
C11_CursorStep ==
    [][\A z \in CursorZones :
         /\ WidgetKeyStep(z, {"ArrowDown"})
              => widgets'[z].cursorIndex =
                   Min(widgets[z].cursorIndex + 1, TotalOf(z) - 1)
         /\ WidgetKeyStep(z, {"ArrowUp"})
              => widgets'[z].cursorIndex =
                   Max(widgets[z].cursorIndex - 1, 0)
         /\ WidgetKeyStep(z, {"ArrowDown", "ArrowUp"})
              => /\ widgets'[z].cursorIndex >= 0
                 /\ widgets'[z].cursorIndex <= TotalOf(z) - 1]_vars

\* zones whose widget has a header row with a submenu
HeaderZones == {z \in CursorZones : headerCount(CompOf(z)) = 1}

\* C12: Enter with cursorIndex = 0 (the header row) in an active widget
\* toggles the submenu: menuOpen becomes its negation, once per key press,
\* and cursorIndex stays 0.
C12_EnterTogglesMenu ==
    [][\A z \in HeaderZones :
         (WidgetKeyStep(z, {"Enter"}) /\ widgets[z].cursorIndex = 0)
           => /\ widgets'[z].menuOpen = ~widgets[z].menuOpen
              /\ widgets'[z].cursorIndex = 0]_vars

\* C13: Enter on a submenu row (menuOpen and 1 <= cursorIndex <= length of
\* the submenu) makes item cursorIndex - 1 the selection, closes the submenu,
\* writes the selection to persistent storage and resets cursorIndex to 0.
C13_EnterSelects ==
    [][\A z \in HeaderZones :
         (/\ WidgetKeyStep(z, {"Enter"})
          /\ widgets[z].menuOpen
          /\ widgets[z].cursorIndex >= 1
          /\ widgets[z].cursorIndex <= widgets[z].sub)
           => /\ ev'.selected = widgets[z].cursorIndex - 1
              /\ ev'.stored = widgets[z].cursorIndex - 1
              /\ ~widgets'[z].menuOpen
              /\ widgets'[z].cursorIndex = 0]_vars

\* the widget of zone z received the Escape of the last step
EscapeStep(z) ==
    /\ KeyStep({"Escape"})
    /\ ActiveZone = z
    /\ ev'.delivered = z

\* C14: Escape while a zone is active and its submenu is open closes the
\* submenu and resets cursorIndex to 0; while the submenu is closed the
\* widget's own handler changes neither menuOpen nor cursorIndex.
C14_EscapeClosesMenu ==
    /\ [][\A z \in HeaderZones :
            (EscapeStep(z) /\ widgets[z].menuOpen)
              => /\ ~widgets'[z].menuOpen
                 /\ widgets'[z].cursorIndex = 0]_vars
    /\ [](\A z \in HeaderZones, arr \in Arrivals :
            (ActiveZone = z /\ ~widgets[z].menuOpen)
              => LET w == WidgetKey(CompOf(z), widgets[z], "Escape", arr)
                 IN  /\ w.menuOpen = widgets[z].menuOpen
                     /\ w.cursorIndex = widgets[z].cursorIndex)

\* the length of a list of zone z changed in the last step, by a query
\* result and not by a key, a click or a selection
ListLengthStep(z) ==
    /\ ev'.type = "other"
    /\ ev'.selected = -1
    /\ widgets'[z].menuOpen = widgets[z].menuOpen
    /\ totalCount(CompOf(z), widgets'[z]) # TotalOf(z)

\* C15: on each transition of a zone from not active to active (by Enter or
\* by click) the cursorIndex of its widget is reset to 0 if totalCount > 0
\* and to -1 otherwise, and a change of totalCount while the zone stays
\* active does not reset it.
C15_ActivationReset ==
    [][\A z \in CursorZones :
         /\ (ActiveZone # z /\ isActive' /\ focusedIndex' = z)
              => widgets'[z].cursorIndex =
                   IF totalCount(CompOf(z), widgets'[z]) > 0 THEN 0 ELSE -1
         /\ (/\ ActiveZone = z
             /\ isActive' /\ focusedIndex' = z
             /\ ListLengthStep(z))
              => widgets'[z].cursorIndex = widgets[z].cursorIndex]_vars

C15_Witness ==
    /\ isActive
    /\ focusedIndex = 0
    /\ KindOf(0) = "Music"
    /\ widgets[0].wasActive
    /\ ev.type = "other"
    /\ widgets[0].content > 0
    /\ widgets[0].cursorIndex = -1

\* C16: on each transition of a zone from active to not active (Escape, or
\* another zone being activated) the submenu of its widget is closed and
\* cursorIndex is reset to -1.
C16_DeactivationReset ==
    [][\A z \in CursorZones :
         (ActiveZone = z /\ ~(isActive' /\ focusedIndex' = z))
           => /\ ~widgets'[z].menuOpen
              /\ widgets'[z].cursorIndex = -1]_vars

\* the task zone was active and is not after the step
TaskZoneExits ==
    /\ ActiveZone = TaskZone
    /\ ~(isActive' /\ focusedIndex' = TaskZone)

\* the task under the cursor of the task widget, or a value outside TaskIds
CursorTask ==
    LET w == widgets[TaskZone]
        id == w.cursorIndex - (IF w.menuOpen THEN w.sub ELSE 0)
    IN  IF id >= 1 /\ id <= w.content THEN id ELSE 0

\* C17: commit-on-exit task widget: on the transition of its zone from active
\* to not active completeTask is called exactly once for every queued task id
\* and the queued set becomes empty; no call is issued by any other step; and
\* Enter on a task row flips the membership of that task in the queued set,
\* so that an even number of toggles before the exit leaves no call for it.
C17_CommitOnExit ==
    [][taskRev = "queue" =>
         /\ TaskZoneExits
              => /\ \A id \in TaskIds :
                      calls'[id] = IF id \in queued THEN 1 ELSE 0
                 /\ queued' = {}
         /\ ~TaskZoneExits => calls' = NoCalls
         /\ (WidgetKeyStep(TaskZone, {"Enter"}) /\ CursorTask \in TaskIds)
              => /\ (CursorTask \in queued') <=> (CursorTask \notin queued)
                 /\ \A id \in TaskIds \ {CursorTask} :
                      (id \in queued') <=> (id \in queued)]_vars

C17_Witness ==
    /\ taskRev = "queue"
    /\ ~isActive
    /\ ev.type = "key"
    /\ ev.key = "Escape"
    /\ ev.from = TaskZone
    /\ queued = {}
    /\ Cardinality({id \in TaskIds : calls[id] = 1}) >= 2

\* the step toggled a task id that was pending
CancelStep(id) ==
    /\ id \in pendingIds
    /\ id \notin pendingIds'
    /\ ev'.type # "timer"

\* C18: grace-timer task widget: a task toggled to pending is committed
\* exactly once, by the step in which its timeout fires, whether the zone is
\* active or not; no other step issues a call; toggling the task again
\* before the timeout fires cancels the timeout without a call; at most one
\* timeout exists per task id.
C18_GraceTimer ==
    /\ [][taskRev = "timer" =>
            \A id \in TaskIds :
              /\ (id \notin pendingIds /\ id \in pendingIds')
                   => (timeouts'[id] = 1 /\ calls' = NoCalls)
              /\ (ev'.type = "timer" /\ timeouts'[id] < timeouts[id])
                   => /\ calls' = [NoCalls EXCEPT ![id] = 1]
                      /\ id \notin pendingIds'
                      /\ timeouts'[id] = 0
              /\ calls'[id] > 0
                   => (ev'.type = "timer" /\ id \in pendingIds)
              /\ CancelStep(id)
                   => (timeouts'[id] = 0 /\ calls' = NoCalls)]_vars
    /\ [](\A id \in TaskIds :
            /\ timeouts[id] <= 1
            /\ (timeouts[id] = 1) <=> (id \in pendingIds))

C18_Witness ==
    /\ taskRev = "timer"
    /\ ev.type = "timer"
    /\ ~isActive
    /\ focusedIndex = -1
    /\ calls[1] = 1
    /\ pendingIds = {2}

\* C19: a rejected completeTask leaves cursorIndex and menuOpen of the widget
\* and (focusedIndex, isActive) of the controller unchanged and the task in
\* its not-completed state: the task list is unchanged, the rejection puts
\* the task neither in the queued set nor in the pending set, and the step
\* that issued the call had taken it out of both.
C19_FailedCommit ==
    [][/\ ev'.type = "rejected"
            => /\ focusedIndex' = focusedIndex
               /\ isActive' = isActive
               /\ widgets'[TaskZone].cursorIndex = widgets[TaskZone].cursorIndex
               /\ widgets'[TaskZone].menuOpen = widgets[TaskZone].menuOpen
               /\ widgets'[TaskZone].content = widgets[TaskZone].content
               /\ queued' = queued
               /\ pendingIds' = pendingIds
               /\ timeouts' = timeouts
       /\ \A id \in TaskIds :
            calls'[id] > 0 => (id \notin queued' /\ id \notin pendingIds')]_vars

C19_Witness ==
    /\ ev.type = "rejected"
    /\ isActive
    /\ widgets[TaskZone].cursorIndex = 2
    /\ widgets[TaskZone].content = 2
    /\ queued = {}
    /\ pendingIds = {}
    /\ inflight = {}

\* C20: a session read at a time before accessTokenExpires - 60 s returns
\* the stored token record unchanged and issues no refresh call; a session
\* read at accessTokenExpires - 60 s or later (30 seconds left, exactly 60
\* seconds left, already expired) issues a refresh call before a token is
\* returned.
C20_RefreshGate ==
    /\ [][\A r \in Readers :
            (req[r].pc = "idle" /\ req'[r].pc # "idle")
              => IF now < cookie.accessTokenExpires - RefreshBuffer
                   THEN /\ req'[r].pc = "done"
                        /\ req'[r].out = cookie
                        /\ req'[r].refreshes = 0
                        /\ cookie' = cookie
                   ELSE /\ req'[r].pc = "refreshing"
                        /\ req'[r].refreshes = 1
                        /\ req'[r].out = NoToken]_vars
    /\ [](\A r \in Readers :
            req[r].pc = "done"
              => /\ req[r].out # NoToken
                 /\ req[r].refreshes = 0 => req[r].out = req[r].token
                 /\ req[r].out # req[r].token => req[r].refreshes = 1)

C20_Witness ==
    \E r \in Readers :
      /\ req[r].pc = "refreshing"
      /\ req[r].refreshes = 1
      /\ req[r].token.accessTokenExpires - now = RefreshBuffer

\* reads whose refresh request is waiting for the answer of the provider
Refreshing == {r \in Readers : req[r].pc = "refreshing"}

\* C21: session reads that overlap while the token is within the buffer send
\* one refresh request between them: no two reads wait for a refresh of the
\* same token record at the same time, and a read that starts while a
\* refresh of the stored token is in flight sends no request of its own.
C21_NoStampede ==
    /\ [](\A r1, r2 \in Refreshing :
            req[r1].token = req[r2].token => r1 = r2)
    /\ [][\A r \in Readers :
            (/\ req[r].pc = "idle"
             /\ req'[r].pc # "idle"
             /\ \E o \in Refreshing : req[o].token = cookie)
              => req'[r].refreshes = 0]_vars

\* a step of the jwt callback with account set
SignInStep == req' = req /\ issued' = issued + 1

\* C22: a failed refresh marks the token record RefreshTokenError, and the
\* marker stays: only a sign-in replaces a marked record by an unmarked one,
\* and every read that ends while the record is marked returns the marker.
C22_ErrorTerminal ==
    /\ [][\A r \in Readers :
            (req[r].pc = "refreshing" /\ req'[r].pc = "done"
               /\ issued' = issued)
              => /\ cookie'.error = "RefreshTokenError"
                 /\ req'[r].out.error = "RefreshTokenError"]_vars
    /\ [][(cookie.error = "RefreshTokenError"
             /\ cookie'.error # "RefreshTokenError") => SignInStep]_vars
    /\ [][\A r \in Readers :
            (/\ cookie.error = "RefreshTokenError"
             /\ req[r].pc # "done"
             /\ req'[r].pc = "done")
              => req'[r].out.error = "RefreshTokenError"]_vars

\* the refresh tokens the provider can hand out
RefreshTokens == {RefreshTokenOf(n) : n \in 1 .. MaxTokens}

\* the session objects that left the server: the one the browser holds and
\* the one each finished read is about to return
Exposed ==
    {client} \cup {SessionFor(req[r].out) : r \in {q \in Readers : req[q].pc = "done"}}

\* C23: no session object that reaches the client carries the refresh token:
\* it has the user fields, accessToken and error and no other field, its
\* accessToken and error are those of the token record, and its accessToken
\* is no refresh token.
C23_RefreshTokenHidden ==
    /\ \A e \in Exposed :
         /\ DOMAIN e = {"user", "accessToken", "error"}
         /\ e.accessToken \notin RefreshTokens
    /\ \A r \in Readers :
         (req[r].pc = "done" /\ req[r].out # NoToken)
           => /\ SessionFor(req[r].out).accessToken = req[r].out.accessToken
              /\ SessionFor(req[r].out).error = req[r].out.error

C23_Witness ==
    /\ client.accessToken = 2
    /\ client.error = "RefreshTokenError"
    /\ cookie.refreshToken = RefreshTokenOf(2)

\* C24: a page rendered for no session or for a session marked
\* RefreshTokenError shows the sign-in prompt, and no widget issues a REST
\* call while the session the browser holds is absent or marked.
C24_AuthRequired ==
    /\ [][\A r \in Readers :
            (/\ req[r].pc = "done"
             /\ req'[r].pc = "idle"
             /\ view' # view
             /\ NeedsSignIn(SessionFor(req[r].out)))
              => view'.prompt]_vars
    /\ [][(/\ view' # view
           /\ req' = req
           /\ NeedsSignIn(SessionFor(cookie)))
            => view'.prompt]_vars
    /\ [][apiCall' # apiCall => ~NeedsSignIn(client)]_vars

\* the items of pages i .. Len(c) of chain c, in order
RECURSIVE AllItemsFrom(_, _)
AllItemsFrom(c, i) ==
    IF i > Len(c) THEN <<>> ELSE ItemsOf(c, i) \o AllItemsFrom(c, i + 1)

\* the items of pages i .. Len(c) that the drain function fn keeps
RECURSIVE KeptItemsFrom(_, _, _)
KeptItemsFrom(fn, c, i) ==
    IF i > Len(c) THEN <<>>
    ELSE Keep(fn, ItemsOf(c, i)) \o KeptItemsFrom(fn, c, i + 1)

\* one request per page: the first without a token, then each token the
\* endpoint returned, once and in the order returned
OneRequestPerPage ==
    drain.requests = [k \in 1 .. Len(chain) |-> k - 1]

Fulfilled ==
    {c \in 1 .. Len(calApi.cals) :
       calApi.cals[c].selected /\ calApi.cals[c].ok}

\* the events of the fulfilled calendars, each with its calendar
EventsOfFulfilled ==
    UNION {Range(Enrich(c, calApi.cals[c].items)) : c \in Fulfilled}

Before(e, f) ==
    \/ StartKey(e) < StartKey(f)
    \/ /\ StartKey(e) = StartKey(f)
       /\ \/ e.calendarId < f.calendarId
          \/ e.calendarId = f.calendarId /\ e.id < f.id

\* C27: the merged list does not depend on the order in which the events
\* requests complete: it is the one arrangement of the events of the
\* fulfilled calendars by start key, calendar and position in the answer.
C27_OrderIndependent ==
    fan.pc = "resolved"
      => /\ Range(fan.out) = EventsOfFulfilled
         /\ \A i \in 1 .. (Len(fan.out) - 1) :
              Before(fan.out[i], fan.out[i + 1])

\* the last calendar completed first and the first one last, with events of
\* equal start in both
C27_Witness ==
    /\ fan.pc = "resolved"
    /\ Len(fan.order) = 3
    /\ fan.order[1] = 3
    /\ fan.order[3] = 1
    /\ \E i \in 1 .. (Len(fan.out) - 1) :
         /\ StartKey(fan.out[i]) = StartKey(fan.out[i + 1])
         /\ fan.out[i].calendarId = 1
         /\ fan.out[i + 1].calendarId = 3

\* the item last committed on the page of the mounted widget
LastHere == picker.lasts[picker.page]

\* C28: once an item has been committed on a page, the widget mounted on
\* that page holds the id of the last item committed there, also after an
\* unmount and a new mount, and the name it shows (the widget's own, or the
\* Dropdown's once that is rendered) is the name of that item.
C28_RoundTrip ==
    (picker.mounted /\ LastHere # NoItem)
      => /\ picker.id = LastHere.id
         /\ Picker # "timer" => picker.name = LastHere.label
         /\ picker.dd
              => /\ picker.ddId = LastHere.id
                 /\ picker.ddName = LastHere.label

\* a widget mounted again after the commit of the item whose id reads as a
\* number, its Dropdown rendered, another item committed on the other page
C28_Witness ==
    /\ picker.mounted
    /\ picker.restored
    /\ LastHere.id = "7"
    /\ picker.id = "7"
    /\ Picker = "timer" => picker.dd
    /\ \E q \in PageIds : picker.lasts[q].id = "L1"

\* storage in the old format: the id as a plain string under the selection
\* key
Legacy(st) == st.main.kind = "str" /\ st.main.s # ""

\* the mount effect of the TaskWidget meets the keys old and leaves them new
MigrationStep(old, new) ==
    /\ Legacy(old)
         => /\ new.main = JSONstringify(old.main.s,
                                        IF old.name.kind = "str"
                                          THEN old.name.s ELSE "Tasks")
            /\ JSONparse(new.main).id = old.main.s
            /\ new.name = Null
            /\ picker'.id = old.main.s
            /\ ~Legacy(new)
    /\ old.main.kind = "json"
         => /\ new = old
            /\ picker'.id = old.main.id
    /\ old = EmptyStorage
         => /\ new = old
            /\ picker'.id = "@default"

\* C29: the mount of the TaskWidget rewrites a selection stored as a plain
\* string id as the JSON text of {id, name} with the same id and the name of
\* the name key ('Tasks' without one), removes the name key and selects the
\* id; on storage that holds the JSON text it writes nothing and selects the
\* stored id; the keys of the other pages are left alone.
C29_Migration ==
    [][(Picker = "timer" /\ ~picker.mounted /\ picker'.mounted)
         => /\ MigrationStep(storage[picker'.page], storage'[picker'.page])
            /\ \A q \in PageIds \ {picker'.page} :
                 storage'[q] = storage[q]]_vars

\* the widget mounted on storage in the old format, migrated by an earlier
\* mount
C29_Witness ==
    /\ Picker = "timer"
    /\ picker.mounted
    /\ LastHere = NoItem
    /\ picker.id = "7"
    /\ storage[picker.page] =
         [main |-> JSONstringify("7", "Home"), name |-> Null]
    /\ \E q \in PageIds : Legacy(storage[q])

\* C30: a click outside every zone while a zone is active leaves isActive
\* false and focusedIndex as it was.
C30_ClickOutside ==
    [][(ev'.type = "outside" /\ isActive)
         => /\ ~isActive'
            /\ focusedIndex' = focusedIndex]_vars

\* the transition function of the controller as section 4.1 words it: the
\* backward step is (focusedIndex - 1 + zoneCount) mod zoneCount
Stated(key, fi, act, zc) ==
    LET c == CtrlKey(hookRev, key, fi, act, zc)
    IN  IF ~act /\ key \in {"ArrowUp", "ArrowLeft"}
          THEN <<PrevZoneModulo(fi, zc), c.act>>
          ELSE <<c.fi, c.act>>

SwitchStep(a, b) ==
    /\ ActiveZone = a
    /\ a # b
    /\ isActive'
    /\ focusedIndex' = b

\* C32: when activateZone(B) is called while zone A # B is active, the
\* widget of A sees its zone go from active to not active in that step, its
\* submenu is closed and its cursorIndex is -1 after it, and the widget of B
\* sees its zone go from not active to active and its cursorIndex is 0.
C32_ClickSwitch ==
    [][\A a, b \in Zones :
         SwitchStep(a, b) =>
           /\ a \in CursorZones
                => /\ widgets[a].wasActive /\ ~widgets'[a].wasActive
                   /\ ~widgets'[a].menuOpen
                   /\ widgets'[a].cursorIndex = -1
           /\ b \in CursorZones
                => /\ ~widgets[b].wasActive /\ widgets'[b].wasActive
                   /\ widgets'[b].cursorIndex = 0]_vars

\* C33: one Escape press leaves one navigation level: pressed while the
\* submenu of the active zone is open it closes the submenu and the zone
\* stays active; the zone is deactivated by an Escape pressed while the
\* submenu is closed.
C33_OneEscapeOneLevel ==
    [][\A z \in HeaderZones :
         /\ (EscapeStep(z) /\ widgets[z].menuOpen)
              => /\ ~widgets'[z].menuOpen
                 /\ isActive'
                 /\ focusedIndex' = z
         /\ (EscapeStep(z) /\ ~widgets[z].menuOpen)
              => /\ ~isActive'
                 /\ focusedIndex' = z]_vars

\* C34: a deferred completion is committed against the list the task was in
\* when it was marked: no completeTask request names a list other than the
\* list of its task, also when another list is selected between the marking
\* and the commit.
C34_CommitInOwnList ==
    [][\A m \in mutations' : m.listId = ListOf(m.taskId)]_vars

\* C35: commit-on-exit task widget: whenever its zone is not active the
\* queued set is empty, on every page and whether tasks are toggled by key
\* or by mouse click.
C35_NoQueuedWhileInactive ==
    (taskRev = "queue" /\ ActiveZone # TaskZone) => queued = {}

\* the task ids with a scheduled timeout that was not cleared
LiveTimers == {id \in TaskIds : timeouts[id] > 0}

\* C36: grace-timer task widget: in every reachable state of the mounted
\* widget the ids shown as pending are the keys of pendingTimers, and those
\* are the ids with a live timeout: a task is shown pending iff a commit for
\* it is still scheduled.
C36_PendingIsScheduled ==
    (taskRev = "timer" /\ mounted)
      => /\ pendingIds = pendingTimers
         /\ pendingTimers = LiveTimers

\* one task was committed by its timeout while the other is still pending
C36_Witness ==
    /\ taskRev = "timer"
    /\ ev.type = "timer"
    /\ calls[2] = 1
    /\ pendingIds = {1}
    /\ pendingTimers = {1}
    /\ isActive

\* C37: grace-timer task widget: the unmount cancels every grace timer, so
\* no timeout is live while the widget is unmounted, no step of an unmounted
\* widget and no unmount sends a completeTask request, and the tasks pending
\* at the unmount are not committed.
C37_NoCommitAfterUnmount ==
    /\ []((taskRev = "timer" /\ ~mounted)
            => \A id \in TaskIds : timeouts[id] = 0)
    /\ [][(taskRev = "timer" /\ (~mounted \/ ~mounted'))
            => (mutations' = {} /\ calls' = NoCalls)]_vars

\* the page was left while both tasks were pending
C37_Witness ==
    /\ taskRev = "timer"
    /\ ~mounted
    /\ ev.type = "unmount"
    /\ pendingIds = TaskIds
    /\ pendingTimers = TaskIds
    /\ isActive

\* C38: the menuOpen flag of the task widget equals the menuOpen state of
\* the Dropdown it renders, after any sequence of toggleMenu, closeMenu,
\* select, header clicks and unmounts and remounts of the Dropdown.
C38_MenuFlagsAgree ==
    \A z \in Zones :
      (CompOf(z) = "timer" /\ DdMounted(widgets[z]))
        => widgets[z].menuOpen = widgets[z].ddOpen

\* how often callback cb occurs in the list q
Count(cb, q) == Cardinality({i \in 1 .. Len(q) : q[i] = cb})

\* C39: across any number and interleaving of ensureAPI calls the script
\* element is appended at most once and the ready handler assigned once;
\* every callback passed is called exactly once, or is waiting in the list
\* while the API is not ready; the callbacks are called in the order they
\* were passed: at once with the API ready, by the ready handler otherwise.
C39_SingleFlight ==
    /\ loader.tags <= 1
    /\ loader.handlers <= 1
    /\ \A i \in 1 .. Len(loader.asked) :
         /\ Count(loader.asked[i], loader.ran) <= 1
         /\ Count(loader.asked[i], loader.ran)
              + Count(loader.asked[i], loader.onReadyCallbacks) = 1
    /\ IF loader.apiReady
         THEN loader.ran = loader.asked /\ loader.onReadyCallbacks = <<>>
         ELSE loader.ran = <<>> /\ loader.onReadyCallbacks = loader.asked

\* two callbacks waited for the ready handler, one of a hook unmounted
\* meanwhile, and two were called at once after it
C39_Witness ==
    /\ loader.apiReady
    /\ Len(loader.asked) = 4
    /\ loader.flushed = 2
    /\ loader.ran = loader.asked
    /\ loader.tags = 1
    /\ loader.asked[1].hook = "yt-b"
    /\ loader.asked[2].hook = "yt-b"
    /\ \A h \in Hooks : players[h].player

====
